---------------------------- MODULE Spec2Model ----------------------------
(***************************************************************************)
(* A state-machine model of the verification engine of ai-orchestrator.    *)
(*                                                                         *)
(* The part modelled here is VerificationLoop                              *)
(* (src/ai_orchestrator/execution/verification_loop.py): one call of       *)
(* run_development_cycle on a freshly constructed loop, cut into the steps *)
(* between which another thread can call cancel().  ProjectRunner,         *)
(* TestExecutor, ErrorDetector and AutoFixer are the loop's environment:   *)
(* each call returns one of the results that component can produce, or     *)
(* raises.                                                                 *)
(*                                                                         *)
(* A second specification, RunnerSpec, models one call of                  *)
(* ProjectRunner.run_project (src/ai_orchestrator/execution/               *)
(* project_runner.py) with the child process group, its two pipes, the two *)
(* reader threads, the output capture, a clock, and a thread that calls    *)
(* ProjectRunner.cancel.                                                   *)
(*                                                                         *)
(* Conventions.  A confidence c in [0,1] is the integer 10*c.  The md5     *)
(* digest of _get_error_hash is the key it digests (digests of different   *)
(* keys are taken to differ).  A DetectedError is named by an identifier   *)
(* of ErrorIds, and ErrorTable gives its fields.                           *)
(***************************************************************************)
EXTENDS Integers, Sequences, FiniteSets, TLC

(***************************************************************************)
(* Bounds of the model.                                                    *)
(***************************************************************************)
MaxCyclesBound == 4

MaxAttemptsBound == 3

MaxGeneratedFixes == 2

\* ProjectRunner(timeout=...), in seconds.
ExecTimeout == 5

\* The largest ProjectRunner(max_retries=...) of the model.
MaxRetriesBound == 2

\* OutputCapture(max_size=...), in characters.
MaxOutputSize == 2

\* The lines the children of one run_project call write, and the lines a
\* pipe holds before a write to it blocks.
MaxWrites == 2

PipeCapacity == 1

(***************************************************************************)
(* Program constants.                                                      *)
(***************************************************************************)
\* confidence_threshold: float = 0.7, in tenths.
confidence_threshold == 7

\* error.message[:100]
HashMessagePrefix == 100

\* detect_infinite_loop and _calculate_trend look at the last 3 cycles.
TrendWindow == 3

\* capture_output, line 326: stderr_thread.join(timeout=1).
JoinStderrTimeout == 1

\* ProjectRunner.cancel, line 387: wait(timeout=5) between terminate and kill.
TerminateGrace == 5

(***************************************************************************)
(* Sequence helpers.                                                       *)
(***************************************************************************)
Min(a, b) == IF a < b THEN a ELSE b

Max(a, b) == IF a > b THEN a ELSE b

\* Python s[:n]
Prefix(s, n) == SubSeq(s, 1, Min(Len(s), n))

\* Python s[-n:]
LastN(s, n) == SubSeq(s, Max(1, Len(s) - n + 1), Len(s))

Range(s) == {s[i] : i \in 1..Len(s)}

(***************************************************************************)
(* DetectedError values.  The messages of E1 and E2 are 101 characters     *)
(* long and differ only in the last one; E3 is a short import error with   *)
(* no location.  No two messages are equal after digit normalisation, so   *)
(* any list of distinct identifiers is a list parse_error_logs can return. *)
(***************************************************************************)
ErrorIds == {"E1", "E2", "E3"}

LongMessage(last) == [i \in 1..(HashMessagePrefix + 1) |->
                        IF i = HashMessagePrefix + 1 THEN last ELSE "a"]

ErrorTable ==
    [e \in ErrorIds |->
        CASE e = "E1" -> [category |-> "runtime", file_path |-> "app.py",
                          line_number |-> 10, message |-> LongMessage("x")]
          [] e = "E2" -> [category |-> "runtime", file_path |-> "app.py",
                          line_number |-> 10, message |-> LongMessage("y")]
          [] e = "E3" -> [category |-> "import", file_path |-> "",
                          line_number |-> 0, message |-> <<"m">>]]

\* The rank of an identifier: the order of the errors in the captured text.
ErrorRank(e) == CASE e = "E1" -> 1 [] e = "E2" -> 2 [] e = "E3" -> 3

\* VerificationLoop._get_error_hash: the key category|file|line|message[:100].
get_error_hash(error) ==
    <<error.category, error.file_path, error.line_number,
      Prefix(error.message, HashMessagePrefix)>>

\* The hash of each error of the table, computed once.
HashTable == [e \in ErrorIds |-> get_error_hash(ErrorTable[e])]

\* The 16 hex digits of a hash are named by the first error of the table
\* that has the same key.
ErrorHash(e) ==
    CHOOSE r \in ErrorIds :
        /\ HashTable[r] = HashTable[e]
        /\ \A q \in ErrorIds :
              HashTable[q] = HashTable[e] => ErrorRank(r) <= ErrorRank(q)

Hashes == {ErrorHash(e) : e \in ErrorIds}

\* The order of the hash strings.
HashLess(a, b) == ErrorRank(a) < ErrorRank(b)

\* sorted(hashes): insertion of h into the sorted sequence s.
RECURSIVE InsertSorted(_, _)
InsertSorted(h, s) ==
    IF s = <<>> THEN <<h>>
    ELSE IF HashLess(Head(s), h) THEN <<Head(s)>> \o InsertSorted(h, Tail(s))
    ELSE <<h>> \o s

RECURSIVE SortedHashes(_)
SortedHashes(s) ==
    IF s = <<>> THEN <<>> ELSE InsertSorted(Head(s), SortedHashes(Tail(s)))

\* The error lists a parse returns in this model: distinct errors in text
\* order; E1 alone or followed by E2 or E3, or E3 alone.
ErrorLists == {<<>>, <<"E1">>, <<"E3">>, <<"E1", "E2">>, <<"E1", "E3">>}

(***************************************************************************)
(* The state of one VerificationLoop and of the call in progress.          *)
(***************************************************************************)
VARIABLES
    max_cycles,               \* constructor arguments
    max_same_error_attempts,
    run_tests,
    auto_fix,
    setup,                    \* the argument setup of run_development_cycle
    install_command,          \* the project's config has an install command
    status,                   \* self.status
    cycles,                   \* self.cycles
    progress,                 \* self.progress
    error_hash_counts,        \* self._error_hash_counts (absent key = 0)
    seen_error_hashes,        \* self._seen_error_hashes
    cancelled,                \* self._cancelled
    runner_cancelled,         \* self.runner._cancelled
    pc,                       \* where run_development_cycle is
    cycle_num,                \* the loop variable of run_development_cycle
    cycle,                    \* the CycleResult being built by _run_single_cycle
    todo,                     \* the errors the fix loop has still to visit
    stop_reason,              \* the reason of the last should_continue
    last_attempt,             \* what the last _attempt_fix call did
    applied_confidences,      \* the confidences apply_fix was called with
    cancel_in_cycle,          \* cancel() was called while a cycle was executing
    fixes_generated,          \* the fixes generate_fix has returned so far
    raised_in                 \* the step whose exception ended the run

\* The state of one ProjectRunner.run_project call (RunnerSpec).
VARIABLES
    max_retries,              \* constructor argument
    r_pc,                     \* where the thread calling run_project is
    executions,               \* the executions started by this call
    current_process,          \* self._current_process is set
    procs,                    \* the processes of the child's process group
    ignores_term,             \* the processes that ignore SIGTERM
    exit_code,                \* the exit status of the child, once it is dead
    writes_left,              \* the lines the children of this call may still write
    pending,                  \* the write the child is blocked in
    pipe,                     \* the lines in the stdout and stderr pipes
    reader,                   \* the two read_stream threads
    capture,                  \* the OutputCapture of the execution
    elapsed,                  \* seconds since the execution started
    deadline,                 \* when the bounded wait in progress gives up
    exec_result,              \* what _execute_command returned last
    result,                   \* the ExecutionResult of run_project
    cancel_pc,                \* where the thread calling cancel() is
    cancel_deadline,          \* when cancel()'s wait gives up
    term_time,                \* when the timeout handler signalled the group
    return_time               \* when _execute_command returned

\* One ErrorDetector.parse_error_logs call and one suggest_fixes call on
\* its result (DetectorSpec).
VARIABLES
    det_output,               \* the argument output, as its lines
    det_stderr,               \* the argument stderr, as its lines
    det_pc,                   \* which of the two calls has returned
    det_errors,               \* what parse_error_logs returned
    det_suggestions           \* what suggest_fixes returned

\* One FixStrategyRegistry and one get_strategies_for_error call (RegistrySpec).
VARIABLES
    reg_strategies,           \* self.strategies
    reg_category,             \* error.category of the call
    reg_min_confidence,       \* the argument min_confidence, times 100
    reg_pc,                   \* whether the call has returned
    reg_result                \* what the call returned

\* A project directory, one fixer call on it and the undo of that call (FixerSpec).
VARIABLES
    fs,                       \* the entries of the project directory
    fs_before,                \* the directory as the fixer found it
    fix_pc,                   \* whether the fixer, and the undo, have run
    fix_result                \* the FixResult of the call

\* One detect_project_type call on a project directory (DetectionSpec).
VARIABLES
    project_path,             \* what detection can see of the directory
    detected                  \* the handler returned, or that the call raised

\* One TestExecutor.parse_test_results call (ParserSpec).
VARIABLES
    tx_output,                \* the test output, as its sequence of tokens
    tx_framework,             \* the framework whose parser is used
    tx_parsed                 \* the TestResult returned, once the call is made

\* The components that VerificationLoop and ProjectRunner call, each
\* followed by a specification of its own.
component_vars == <<det_output, det_stderr, det_pc, det_errors,
                    det_suggestions, reg_strategies, reg_category,
                    reg_min_confidence, reg_pc, reg_result, fs, fs_before,
                    fix_pc, fix_result, project_path, detected, tx_output,
                    tx_framework, tx_parsed>>

\* No call has been made of any component but the one named.
ComponentsIdleBut(component) ==
    /\ component # "detector" =>
          /\ det_output = << <<>> >>
          /\ det_stderr = << <<>> >>
          /\ det_pc = "idle"
          /\ det_errors = <<>>
          /\ det_suggestions = <<>>
    /\ component # "registry" =>
          /\ reg_strategies = <<>>
          /\ reg_category = "unknown"
          /\ reg_min_confidence = 50
          /\ reg_pc = "idle"
          /\ reg_result = <<>>
    /\ component # "fixer" =>
          /\ fs = <<>>
          /\ fs_before = <<>>
          /\ fix_pc = "idle"
          /\ fix_result = [success |-> FALSE, rollback_info |-> <<>>]
    /\ component # "detection" =>
          /\ project_path = <<>>
          /\ detected = "pending"
    /\ component # "parser" =>
          /\ tx_output = <<>>
          /\ tx_framework = "unknown"
          /\ tx_parsed = <<>>

runner_vars == <<max_retries, r_pc, executions, current_process, procs,
                 ignores_term, exit_code, writes_left, pending, pipe, reader,
                 capture, elapsed, deadline, exec_result, result, cancel_pc,
                 cancel_deadline, term_time, return_time>>

loop_vars == <<max_cycles, max_same_error_attempts, run_tests, auto_fix,
               setup, install_command, status, cycles, progress, error_hash_counts, seen_error_hashes,
               cancelled, pc, cycle_num, cycle, todo, stop_reason,
               last_attempt, applied_confidences, cancel_in_cycle,
               fixes_generated, raised_in, component_vars>>

vars == <<max_cycles, max_same_error_attempts, run_tests, auto_fix, setup,
          install_command, status, cycles, progress, error_hash_counts, seen_error_hashes, cancelled,
          runner_cancelled, pc, cycle_num, cycle, todo, stop_reason,
          last_attempt, applied_confidences, cancel_in_cycle,
          fixes_generated, raised_in, runner_vars, component_vars>>

\* What no step of run_development_cycle changes: the constructor arguments,
\* and the inside of the runner's execution, which RunnerSpec follows.
config_vars == <<max_cycles, max_same_error_attempts, run_tests, auto_fix,
                 setup, install_command, runner_vars, component_vars>>

LoopStatus == {"not_started", "running", "success", "failed",
               "max_retries_reached", "stuck_in_loop", "needs_human_help",
               "cancelled"}

ExecutionStatus == {"pending", "setting_up", "running", "success", "failed",
                    "timeout", "cancelled"}

\* CycleResult(cycle_number=n)
NewCycle(n) ==
    [cycle_number |-> n,
     execution_result |-> [status |-> "none", errors |-> <<>>,
                           setup |-> "not_run"],
     test_result |-> [ran |-> FALSE, success |-> FALSE],
     errors_found |-> <<>>,
     fixes_attempted |-> <<>>,
     fixes_successful |-> 0,
     fixes_failed |-> 0,
     status |-> "pending"]

\* LoopProgress()
NewProgress ==
    [total_cycles |-> 0, total_errors_found |-> 0, total_errors_fixed |-> 0,
     unique_errors_seen |-> 0, repeated_errors |-> 0, trend |-> "unknown",
     error_count_history |-> <<>>]

NoAttempt ==
    [error |-> "none", cycle |-> 0, count_before |-> 0, skipped |-> FALSE,
     analyzed |-> FALSE, generated |-> FALSE, applied |-> FALSE,
     confidence |-> 0, returned |-> "none"]

(***************************************************************************)
(* The data of one execution of the runner.                                *)
(***************************************************************************)
\* The child started by Popen (the shell of shell=True, leader of its own
\* process group because of setsid) and a process it forks.
Procs == {"shell", "worker"}

Streams == {"stdout", "stderr"}

\* Line 461: the text _execute_command appends to stderr when it catches an
\* exception, as a sequence of characters.
ExecutionErrorText == <<"nl", "Execution error">>

\* Line 441: the text appended to stderr on a timeout.
TimeoutText == <<"nl", "Process timed out">>

\* A line that the text-mode stream (text=True, line 413) cannot decode.
Undecodable == <<"xFF">>

\* The lines a child writes: any text, the runner's own included.
ChildLines == {<<"a">>, ExecutionErrorText, Undecodable}

\* Optional[int]: None, or an integer.
None == <<>>

Some(n) == <<n>>

\* The child is not in a write.
NoWrite == [stream |-> "none", line |-> <<>>]

\* OutputCapture.__init__, lines 54-59.
NewCapture == [stdout |-> <<>>, stderr |-> <<>>, current_size |-> 0]

NoExecResult ==
    [status |-> "none", exit_code |-> None, stdout |-> <<>>,
     stderr |-> <<>>, spawned |-> FALSE]

\* ExecutionResult(status=PENDING, ...), lines 212-216.
NewExecutionResult ==
    [status |-> "pending", exit_code |-> None, stdout |-> <<>>,
     stderr |-> <<>>, errors |-> <<>>, message |-> ""]

\* ProjectRunner.__init__, lines 104-114, with nothing running.
RunnerIdle ==
    /\ r_pc = "idle"
    /\ executions = 0
    /\ current_process = FALSE
    /\ procs = [p \in Procs |-> "absent"]
    /\ exit_code = None
    /\ writes_left = MaxWrites
    /\ pending = NoWrite
    /\ pipe = [s \in Streams |-> <<>>]
    /\ reader = [s \in Streams |-> "not_started"]
    /\ capture = NewCapture
    /\ elapsed = 0
    /\ deadline = 0
    /\ exec_result = NoExecResult
    /\ result = NewExecutionResult
    /\ cancel_pc = "idle"
    /\ cancel_deadline = 0
    /\ term_time = -1
    /\ return_time = -1

\* VerificationLoop.__init__
LoopInit ==
    /\ max_cycles \in 0..MaxCyclesBound
    /\ max_same_error_attempts \in 1..MaxAttemptsBound
    /\ run_tests \in BOOLEAN
    /\ auto_fix \in BOOLEAN
    /\ status = "not_started"
    /\ cycles = <<>>
    /\ progress = NewProgress
    /\ error_hash_counts = [h \in Hashes |-> 0]
    /\ seen_error_hashes = {}
    /\ cancelled = FALSE
    /\ runner_cancelled = FALSE
    /\ pc = "not_started"
    /\ cycle_num = 0
    /\ cycle = NewCycle(0)
    /\ todo = <<>>
    /\ stop_reason = "none"
    /\ last_attempt = NoAttempt
    /\ applied_confidences = {}
    /\ cancel_in_cycle = FALSE
    /\ fixes_generated = 0
    /\ raised_in = "none"

\* A freshly constructed loop, whose runner has not run anything yet, for a
\* project without an install command.
Init ==
    /\ LoopInit
    /\ setup = TRUE
    /\ install_command = FALSE
    /\ max_retries = 1
    /\ ignores_term = {}
    /\ RunnerIdle
    /\ ComponentsIdleBut("none")

\* A loop and a runner that nothing has called: the state of the two while
\* one of the components they call is followed on its own.
EngineIdle ==
    /\ max_cycles = 1
    /\ max_same_error_attempts = 1
    /\ run_tests = FALSE
    /\ auto_fix = FALSE
    /\ LoopInit
    /\ setup = TRUE
    /\ install_command = FALSE
    /\ max_retries = 1
    /\ ignores_term = {}
    /\ RunnerIdle

engine_vars == <<max_cycles, max_same_error_attempts, run_tests, auto_fix,
                 setup, install_command, status, cycles, progress, error_hash_counts,
                 seen_error_hashes, cancelled, runner_cancelled, pc,
                 cycle_num, cycle, todo, stop_reason, last_attempt,
                 applied_confidences, cancel_in_cycle, fixes_generated,
                 raised_in, runner_vars>>

\* What the steps of one component leave alone: the engine and the other
\* components.
detector_frame == <<engine_vars, reg_strategies, reg_category,
                    reg_min_confidence, reg_pc, reg_result, fs, fs_before,
                    fix_pc, fix_result, project_path, detected, tx_output,
                    tx_framework, tx_parsed>>

registry_frame == <<engine_vars, det_output, det_stderr, det_pc, det_errors,
                    det_suggestions, fs, fs_before, fix_pc, fix_result,
                    project_path, detected, tx_output, tx_framework,
                    tx_parsed>>

fixer_frame == <<engine_vars, det_output, det_stderr, det_pc, det_errors,
                 det_suggestions, reg_strategies, reg_category,
                 reg_min_confidence, reg_pc, reg_result, project_path,
                 detected, tx_output, tx_framework, tx_parsed>>

detection_frame == <<engine_vars, det_output, det_stderr, det_pc, det_errors,
                     det_suggestions, reg_strategies, reg_category,
                     reg_min_confidence, reg_pc, reg_result, fs, fs_before,
                     fix_pc, fix_result, tx_output, tx_framework, tx_parsed>>

parser_frame == <<engine_vars, det_output, det_stderr, det_pc, det_errors,
                  det_suggestions, reg_strategies, reg_category,
                  reg_min_confidence, reg_pc, reg_result, fs, fs_before,
                  fix_pc, fix_result, project_path, detected>>

(***************************************************************************)
(* Progress tracking.                                                      *)
(***************************************************************************)
\* A trend that compares the latest count with the one before it.
calculate_trend_LastTwo(history) ==
    LET recent == LastN(history, TrendWindow) IN
    IF Len(history) < 2 THEN "unknown"
    ELSE IF \A i \in 1..Len(recent) : recent[i] = recent[1] THEN "stalled"
    ELSE IF recent[Len(recent)] < recent[Len(recent) - 1] THEN "improving"
    ELSE IF recent[Len(recent)] > recent[Len(recent) - 1] THEN "regressing"
    ELSE "stalled"

\* VerificationLoop._calculate_trend
calculate_trend(history) ==
    LET recent == LastN(history, TrendWindow) IN
    IF Len(history) < 2 THEN "unknown"
    ELSE IF \A i \in 1..Len(recent) : recent[i] = recent[1] THEN "stalled"
    ELSE IF recent[Len(recent)] < recent[1] THEN "improving"
    ELSE IF recent[Len(recent)] > recent[1] THEN "regressing"
    ELSE "stalled"

\* A progress update that counts every recorded fix attempt as a fixed error.
update_progress_AttemptsAsFixed(prog, c, seen) ==
    LET error_count == Len(c.errors_found)
        history == Append(prog.error_count_history, error_count)
        repeated == Cardinality({i \in 1..error_count :
                                   ErrorHash(c.errors_found[i]) \in seen})
    IN  [total_cycles |-> prog.total_cycles + 1,
         total_errors_found |-> prog.total_errors_found + error_count,
         total_errors_fixed |-> prog.total_errors_fixed + Len(c.fixes_attempted),
         unique_errors_seen |-> prog.unique_errors_seen + (error_count - repeated),
         repeated_errors |-> prog.repeated_errors + repeated,
         trend |-> calculate_trend(history),
         error_count_history |-> history]

\* VerificationLoop._update_progress
update_progress(prog, c, seen) ==
    LET error_count == Len(c.errors_found)
        history == Append(prog.error_count_history, error_count)
        repeated == Cardinality({i \in 1..error_count :
                                   ErrorHash(c.errors_found[i]) \in seen})
    IN  [total_cycles |-> prog.total_cycles + 1,
         total_errors_found |-> prog.total_errors_found + error_count,
         total_errors_fixed |-> prog.total_errors_fixed + c.fixes_successful,
         unique_errors_seen |-> prog.unique_errors_seen + (error_count - repeated),
         repeated_errors |-> prog.repeated_errors + repeated,
         trend |-> calculate_trend(history),
         error_count_history |-> history]

(***************************************************************************)
(* The continuation policy.                                                *)
(***************************************************************************)
\* VerificationLoop._get_cycle_error_signature: the sorted hashes, joined.
get_cycle_error_signature(c) ==
    SortedHashes([i \in 1..Len(c.errors_found) |-> ErrorHash(c.errors_found[i])])

\* VerificationLoop.detect_infinite_loop
detect_infinite_loop(cs, prog) ==
    IF Len(cs) < TrendWindow THEN FALSE
    ELSE
      LET last_3_errors == [i \in 1..TrendWindow |->
                get_cycle_error_signature(LastN(cs, TrendWindow)[i])]
          history == prog.error_count_history
          recent == LastN(history, TrendWindow)
      IN  \/ /\ Cardinality(Range(last_3_errors)) = 1
             /\ last_3_errors[1] # <<>>
          \/ /\ prog.trend = "stalled"
             /\ Len(history) >= TrendWindow
             /\ \A i \in 1..Len(recent) : recent[i] > 0

\* A cap test that is off by one: the hash may be attempted once more.
AtAttemptCap_Strict(counts, h) == counts[h] > max_same_error_attempts

\* The test of _attempt_fix and should_continue: the hash is at its cap.
AtAttemptCap(counts, h) == counts[h] >= max_same_error_attempts

\* should_continue with the exhausted-attempts test ahead of the stuck test.
should_continue_HelpFirst(c, cs, prog, counts) ==
    LET all_errors_exhausted ==
            \A i \in 1..Len(c.errors_found) :
                counts[ErrorHash(c.errors_found[i])] >= max_same_error_attempts
    IN
    IF c.status = "success" THEN [cont |-> FALSE, reason |-> "success"]
    ELSE IF all_errors_exhausted /\ c.errors_found # <<>>
        THEN [cont |-> FALSE, reason |-> "needs_help"]
    ELSE IF detect_infinite_loop(cs, prog) THEN [cont |-> FALSE, reason |-> "stuck"]
    ELSE IF prog.trend = "regressing" /\ Len(cs) >= TrendWindow
        THEN [cont |-> FALSE, reason |-> "regressing"]
    ELSE IF c.errors_found # <<>> /\ Len(cs) < max_cycles
        THEN [cont |-> TRUE, reason |-> "errors_remaining"]
    ELSE IF c.errors_found = <<>> THEN [cont |-> FALSE, reason |-> "success"]
    ELSE [cont |-> TRUE, reason |-> "continue"]

\* VerificationLoop.should_continue: (should_continue, reason)
should_continue(c, cs, prog, counts) ==
    LET all_errors_exhausted ==
            \A i \in 1..Len(c.errors_found) :
                AtAttemptCap(counts, ErrorHash(c.errors_found[i]))
    IN
    IF c.status = "success" THEN [cont |-> FALSE, reason |-> "success"]
    ELSE IF detect_infinite_loop(cs, prog) THEN [cont |-> FALSE, reason |-> "stuck"]
    ELSE IF prog.trend = "regressing" /\ Len(cs) >= TrendWindow
        THEN [cont |-> FALSE, reason |-> "regressing"]
    ELSE IF all_errors_exhausted /\ c.errors_found # <<>>
        THEN [cont |-> FALSE, reason |-> "needs_help"]
    ELSE IF c.errors_found # <<>> /\ Len(cs) < max_cycles
        THEN [cont |-> TRUE, reason |-> "errors_remaining"]
    ELSE IF c.errors_found = <<>> THEN [cont |-> FALSE, reason |-> "success"]
    ELSE [cont |-> TRUE, reason |-> "continue"]

\* A status mapping that forgets the reason "success".
StatusForReason_NoSuccess(reason, st) ==
    CASE reason = "stuck" -> "stuck_in_loop"
      [] reason = "needs_help" -> "needs_human_help"
      [] OTHER -> st

\* run_development_cycle, lines 191-198: the status a stop reason sets.
StatusForReason(reason, st) ==
    CASE reason = "success" -> "success"
      [] reason = "stuck" -> "stuck_in_loop"
      [] reason = "needs_help" -> "needs_human_help"
      [] OTHER -> st

\* A check after the loop with > for >=.
StatusAfterLoop_Strict(cs, st) ==
    IF Len(cs) > max_cycles /\ st = "running" THEN "max_retries_reached" ELSE st

\* run_development_cycle, lines 200-202: the check after the for loop.
StatusAfterLoop(cs, st) ==
    IF Len(cs) >= max_cycles /\ st = "running" THEN "max_retries_reached" ELSE st

\* An except clause that leaves the status as it is.
StatusOnException_Kept == "running"

\* run_development_cycle, lines 204-205: the except clause.
StatusOnException == "failed"

(***************************************************************************)
(* The environment of the loop.                                            *)
(***************************************************************************)
\* ProjectRunner.run_project: the (status, errors) it can return, and what
\* became of the setup.  The install command is run when the call asks for
\* the setup and the project has one (line 219); if it fails the call
\* returns failed with the errors of the setup output, before the run
\* command (lines 224-228).  Every DetectedError has severity "error", so a
\* run with errors is never left at success (lines 275-279); the cancelled
\* result is the early return of lines 246-249, taken only once the runner's
\* flag is set, before any error detection.
RunOutcomes(flag, setup_asked) ==
    LET installs == setup_asked /\ install_command
        Ran(st, errs) == [status |-> st, errors |-> errs,
                          setup |-> IF installs THEN "succeeded" ELSE "not_run"]
    IN  {Ran("success", <<>>)}
        \cup {Ran(st, errs) : st \in {"failed", "timeout"}, errs \in ErrorLists}
        \cup (IF flag THEN {Ran("cancelled", <<>>)} ELSE {})
        \cup (IF installs
                THEN {[status |-> "failed", errors |-> errs, setup |-> "failed"] :
                         errs \in ErrorLists}
                ELSE {})

\* AutoFixer.generate_fix: no fix (0), or a fix with a confidence just below
\* or exactly at the threshold.
GeneratedConfidences == {0, confidence_threshold - 1, confidence_threshold}

\* A test that takes the absence of a fix for a fix of confidence 0.
NoFix_Never(confidence) == FALSE

\* _attempt_fix, line 308: generate_fix returned no fix.
NoFix(confidence) == confidence = 0

\* A threshold test that lets a fix just below the threshold through.
BelowThreshold_Lax(confidence) == confidence < confidence_threshold - 1

\* _attempt_fix, line 312: the fix is not confident enough to be applied.
BelowThreshold(confidence) == confidence < confidence_threshold

InCycle == {"run", "test", "fix_exec", "fix_test"}

(***************************************************************************)
(* run_development_cycle, step by step.                                    *)
(***************************************************************************)
\* Lines 157-162: the entry of run_development_cycle.
Start ==
    /\ pc = "not_started"
    /\ status' = "running"
    /\ cancelled' = FALSE
    /\ cycle_num' = 1
    /\ pc' = "loop_head"
    /\ UNCHANGED <<config_vars, fixes_generated, cycles, progress, error_hash_counts,
                   seen_error_hashes, runner_cancelled, cycle, todo,
                   stop_reason, last_attempt, applied_confidences,
                   cancel_in_cycle, raised_in>>

\* Lines 165-176: the head of the for loop, the cancellation check and the
\* call of _run_single_cycle up to the call of run_project, which clears
\* the runner's flag (project_runner.py line 204).
LoopHead ==
    /\ pc = "loop_head"
    /\ IF cycle_num > max_cycles
         THEN /\ pc' = "after_loop"
              /\ UNCHANGED <<status, cycle, runner_cancelled>>
         ELSE IF cancelled
         THEN /\ status' = "cancelled"
              /\ pc' = "after_loop"
              /\ UNCHANGED <<cycle, runner_cancelled>>
         ELSE /\ cycle' = NewCycle(cycle_num)
              /\ runner_cancelled' = FALSE
              /\ pc' = "run"
              /\ UNCHANGED status
    /\ UNCHANGED <<config_vars, fixes_generated, cycles, progress, error_hash_counts,
                   seen_error_hashes, cancelled, cycle_num, todo, stop_reason,
                   last_attempt, applied_confidences, cancel_in_cycle,
                   raised_in>>

\* A cycle that runs the tests after a run that timed out as well.
RunProject_TestsAfterTimeout ==
    /\ pc = "run"
    /\ \E r \in RunOutcomes(runner_cancelled, setup /\ cycle_num = 1) :
         LET c1 == [cycle EXCEPT !.execution_result = r] IN
         IF r.status \notin {"success", "timeout"}
           THEN IF auto_fix /\ r.errors # <<>>
                  THEN /\ cycle' = [c1 EXCEPT !.errors_found = r.errors]
                       /\ todo' = r.errors
                       /\ pc' = "fix_exec"
                  ELSE /\ cycle' = [c1 EXCEPT !.errors_found = r.errors,
                                              !.status = "errors_found"]
                       /\ todo' = <<>>
                       /\ pc' = "cycle_done"
           ELSE IF run_tests
                  THEN /\ cycle' = c1
                       /\ todo' = <<>>
                       /\ pc' = "test"
                  ELSE /\ cycle' = [c1 EXCEPT !.status =
                                      IF r.status = "success" THEN "success"
                                      ELSE "execution_completed"]
                       /\ todo' = <<>>
                       /\ pc' = "cycle_done"
    /\ UNCHANGED <<config_vars, fixes_generated, status, cycles, progress, error_hash_counts,
                   seen_error_hashes, cancelled, runner_cancelled, cycle_num,
                   stop_reason, last_attempt, applied_confidences,
                   cancel_in_cycle, raised_in>>

\* A cycle that attempts fixes whether auto_fix is set or not.
RunProject_FixesAlways ==
    /\ pc = "run"
    /\ \E r \in RunOutcomes(runner_cancelled, setup /\ cycle_num = 1) :
         LET c1 == [cycle EXCEPT !.execution_result = r] IN
         IF r.status \notin {"success", "timeout"}
           THEN IF r.errors # <<>>
                  THEN /\ cycle' = [c1 EXCEPT !.errors_found = r.errors]
                       /\ todo' = r.errors
                       /\ pc' = "fix_exec"
                  ELSE /\ cycle' = [c1 EXCEPT !.errors_found = r.errors,
                                              !.status = "errors_found"]
                       /\ todo' = <<>>
                       /\ pc' = "cycle_done"
           ELSE IF run_tests /\ r.status = "success"
                  THEN /\ cycle' = c1
                       /\ todo' = <<>>
                       /\ pc' = "test"
                  ELSE /\ cycle' = [c1 EXCEPT !.status =
                                      IF r.status = "success" THEN "success"
                                      ELSE "execution_completed"]
                       /\ todo' = <<>>
                       /\ pc' = "cycle_done"
    /\ UNCHANGED <<config_vars, fixes_generated, status, cycles, progress, error_hash_counts,
                   seen_error_hashes, cancelled, runner_cancelled, cycle_num,
                   stop_reason, last_attempt, applied_confidences,
                   cancel_in_cycle, raised_in>>

\* A cycle that asks for the setup whatever its number.
RunProject_SetupEveryCycle ==
    /\ pc = "run"
    /\ \E r \in RunOutcomes(runner_cancelled, setup) :
         LET c1 == [cycle EXCEPT !.execution_result = r] IN
         IF r.status \notin {"success", "timeout"}
           THEN IF auto_fix /\ r.errors # <<>>
                  THEN /\ cycle' = [c1 EXCEPT !.errors_found = r.errors]
                       /\ todo' = r.errors
                       /\ pc' = "fix_exec"
                  ELSE /\ cycle' = [c1 EXCEPT !.errors_found = r.errors,
                                              !.status = "errors_found"]
                       /\ todo' = <<>>
                       /\ pc' = "cycle_done"
           ELSE IF run_tests /\ r.status = "success"
                  THEN /\ cycle' = c1
                       /\ todo' = <<>>
                       /\ pc' = "test"
                  ELSE /\ cycle' = [c1 EXCEPT !.status =
                                      IF r.status = "success" THEN "success"
                                      ELSE "execution_completed"]
                       /\ todo' = <<>>
                       /\ pc' = "cycle_done"
    /\ UNCHANGED <<config_vars, fixes_generated, status, cycles, progress, error_hash_counts,
                   seen_error_hashes, cancelled, runner_cancelled, cycle_num,
                   stop_reason, last_attempt, applied_confidences,
                   cancel_in_cycle, raised_in>>

\* _run_single_cycle, lines 224-249 and 281-285: run_project returns and the
\* cycle branches on its status.
RunProject ==
    /\ pc = "run"
    /\ \E r \in RunOutcomes(runner_cancelled, setup /\ cycle_num = 1) :
         LET c1 == [cycle EXCEPT !.execution_result = r] IN
         IF r.status \notin {"success", "timeout"}
           THEN IF auto_fix /\ r.errors # <<>>
                  THEN /\ cycle' = [c1 EXCEPT !.errors_found = r.errors]
                       /\ todo' = r.errors
                       /\ pc' = "fix_exec"
                  ELSE /\ cycle' = [c1 EXCEPT !.errors_found = r.errors,
                                              !.status = "errors_found"]
                       /\ todo' = <<>>
                       /\ pc' = "cycle_done"
           ELSE IF run_tests /\ r.status = "success"
                  THEN /\ cycle' = c1
                       /\ todo' = <<>>
                       /\ pc' = "test"
                  ELSE /\ cycle' = [c1 EXCEPT !.status =
                                      IF r.status = "success" THEN "success"
                                      ELSE "execution_completed"]
                       /\ todo' = <<>>
                       /\ pc' = "cycle_done"
    /\ UNCHANGED <<config_vars, fixes_generated, status, cycles, progress, error_hash_counts,
                   seen_error_hashes, cancelled, runner_cancelled, cycle_num,
                   stop_reason, last_attempt, applied_confidences,
                   cancel_in_cycle, raised_in>>

\* _run_single_cycle, lines 252-280, for a test run that succeeds.  A test
\* run that fails does not get past line 264 (RunTestsRaises), so the fix
\* loop of lines 269-276 and the tag tests_failed are not reached.
RunTests ==
    /\ pc = "test"
    /\ cycle' = [cycle EXCEPT !.test_result = [ran |-> TRUE, success |-> TRUE],
                              !.status = "success"]
    /\ todo' = <<>>
    /\ pc' = "cycle_done"
    /\ UNCHANGED <<config_vars, fixes_generated, status, cycles, progress, error_hash_counts,
                   seen_error_hashes, cancelled, runner_cancelled, cycle_num,
                   stop_reason, last_attempt, applied_confidences,
                   cancel_in_cycle, raised_in>>

\* The FixAttempt that _attempt_fix returns for a generated fix.
FixAttempt(error, confidence, success, message) ==
    [error |-> error, confidence |-> confidence, success |-> success,
     message |-> message]

\* A recording that drops the cycle's earlier fixes when an attempt fails.
RecordAttempt_Rollback(c, fa) ==
    IF fa.success
      THEN [c EXCEPT !.fixes_attempted = Append(@, fa),
                     !.fixes_successful = @ + 1]
      ELSE [c EXCEPT !.fixes_attempted = <<fa>>,
                     !.fixes_successful = 0,
                     !.fixes_failed = @ + 1]

\* Lines 241-245 and 272-276: a returned FixAttempt is recorded in the cycle.
RecordAttempt(c, fa) ==
    [c EXCEPT !.fixes_attempted = Append(@, fa),
              !.fixes_successful = IF fa.success THEN @ + 1 ELSE @,
              !.fixes_failed = IF fa.success THEN @ ELSE @ + 1]

\* Lines 247 and 278: the status tag once the fix loop is over.
AfterFixes(c, rest, phase) ==
    IF rest # <<>> THEN c
    ELSE [c EXCEPT !.status = IF phase = "fix_exec" THEN "errors_found"
                              ELSE "tests_failed"]

\* _attempt_fix for the next error of the fix loop (lines 238-245, 269-276,
\* 287-332).
AttemptFix ==
    /\ pc \in {"fix_exec", "fix_test"}
    /\ todo # <<>>
    /\ LET error == Head(todo)
           rest == Tail(todo)
           error_hash == ErrorHash(error)
           before == error_hash_counts[error_hash]
           attempt == [NoAttempt EXCEPT !.error = error, !.cycle = cycle_num,
                                       !.count_before = before]
       IN
       /\ todo' = rest
       /\ pc' = IF rest = <<>> THEN "cycle_done" ELSE pc
       /\ IF AtAttemptCap(error_hash_counts, error_hash)
            THEN /\ last_attempt' = [attempt EXCEPT !.skipped = TRUE]
                 /\ cycle' = AfterFixes(cycle, rest, pc)
                 /\ UNCHANGED <<error_hash_counts, seen_error_hashes,
                                applied_confidences, fixes_generated>>
            ELSE
              /\ error_hash_counts' =
                     [error_hash_counts EXCEPT ![error_hash] = @ + 1]
              /\ seen_error_hashes' = seen_error_hashes \cup {error_hash}
              /\ \E confidence \in GeneratedConfidences :
                   /\ confidence # 0 => fixes_generated < MaxGeneratedFixes
                   /\ fixes_generated' =
                          IF confidence = 0 THEN fixes_generated
                          ELSE fixes_generated + 1
                   /\ IF NoFix(confidence)
                        THEN /\ last_attempt' = [attempt EXCEPT !.analyzed = TRUE]
                             /\ cycle' = AfterFixes(cycle, rest, pc)
                             /\ UNCHANGED applied_confidences
                        ELSE IF BelowThreshold(confidence)
                        THEN /\ last_attempt' =
                                    [attempt EXCEPT !.analyzed = TRUE,
                                                    !.generated = TRUE,
                                                    !.confidence = confidence,
                                                    !.returned = "attempt"]
                             /\ cycle' = AfterFixes(
                                    RecordAttempt(cycle,
                                        FixAttempt(error, confidence, FALSE,
                                                   "confidence_too_low")),
                                    rest, pc)
                             /\ UNCHANGED applied_confidences
                        ELSE \E success \in BOOLEAN :
                             /\ last_attempt' =
                                    [attempt EXCEPT !.analyzed = TRUE,
                                                    !.generated = TRUE,
                                                    !.applied = TRUE,
                                                    !.confidence = confidence,
                                                    !.returned = "attempt"]
                             /\ applied_confidences' =
                                    applied_confidences \cup {confidence}
                             /\ cycle' = AfterFixes(
                                    RecordAttempt(cycle,
                                        FixAttempt(error, confidence, success,
                                                   "applied")),
                                    rest, pc)
    /\ UNCHANGED <<config_vars, status, cycles, progress, cancelled,
                   runner_cancelled, cycle_num, stop_reason, cancel_in_cycle,
                   raised_in>>

\* Lines 204-205: an exception of run_project leaves the try block.
RunProjectRaises ==
    /\ pc = "run"
    /\ status' = StatusOnException
    /\ raised_in' = "run"
    /\ pc' = "done"
    /\ UNCHANGED <<config_vars, fixes_generated, cycles, progress, error_hash_counts,
                   seen_error_hashes, cancelled, runner_cancelled, cycle_num,
                   cycle, todo, stop_reason, last_attempt, applied_confidences,
                   cancel_in_cycle>>

\* An exception of run_tests (step "test"), or a test run that fails (step
\* "parse"): line 264 then reads test_result.error_output, an attribute
\* that the TestResult of test_executor.py does not have, and the
\* AttributeError ends the run before the cycle is recorded.
RunTestsRaises ==
    /\ pc = "test"
    /\ \E step \in {"test", "parse"} :
         /\ raised_in' = step
         /\ cycle' = IF step = "parse"
                       THEN [cycle EXCEPT !.test_result =
                                [ran |-> TRUE, success |-> FALSE]]
                       ELSE cycle
    /\ status' = StatusOnException
    /\ pc' = "done"
    /\ UNCHANGED <<config_vars, fixes_generated, cycles, progress, error_hash_counts,
                   seen_error_hashes, cancelled, runner_cancelled, cycle_num,
                   todo, stop_reason, last_attempt, applied_confidences,
                   cancel_in_cycle>>

\* An exception of analyze_error, generate_fix or apply_fix inside
\* _attempt_fix: the attempt is already counted (line 295).
AttemptFixRaises ==
    /\ pc \in {"fix_exec", "fix_test"}
    /\ todo # <<>>
    /\ LET error == Head(todo)
           error_hash == ErrorHash(error)
           attempt == [NoAttempt EXCEPT !.error = error, !.cycle = cycle_num,
                          !.count_before = error_hash_counts[error_hash]]
       IN
       /\ ~AtAttemptCap(error_hash_counts, error_hash)
       /\ error_hash_counts' = [error_hash_counts EXCEPT ![error_hash] = @ + 1]
       /\ seen_error_hashes' = seen_error_hashes \cup {error_hash}
       /\ \E step \in {"analyze", "generate", "apply"} :
            /\ raised_in' = step
            /\ IF step = "apply"
                 THEN \E confidence \in GeneratedConfidences :
                        /\ confidence # 0
                        /\ ~BelowThreshold(confidence)
                        /\ fixes_generated < MaxGeneratedFixes
                        /\ fixes_generated' = fixes_generated + 1
                        /\ applied_confidences' =
                               applied_confidences \cup {confidence}
                        /\ last_attempt' =
                               [attempt EXCEPT !.analyzed = TRUE,
                                               !.generated = TRUE,
                                               !.applied = TRUE,
                                               !.confidence = confidence]
                 ELSE /\ last_attempt' = [attempt EXCEPT !.analyzed = TRUE]
                      /\ UNCHANGED <<applied_confidences, fixes_generated>>
    /\ status' = StatusOnException
    /\ pc' = "done"
    /\ UNCHANGED <<config_vars, cycles, progress, cancelled, runner_cancelled,
                   cycle_num, cycle, todo, stop_reason, cancel_in_cycle>>

\* Lines 177-198: the cycle is recorded, the progress updated, and
\* should_continue decides.
CycleDone ==
    /\ pc = "cycle_done"
    /\ LET cs == Append(cycles, cycle)
           prog == update_progress(progress, cycle, seen_error_hashes)
           decision == should_continue(cycle, cs, prog, error_hash_counts)
       IN
       /\ cycles' = cs
       /\ progress' = prog
       /\ stop_reason' = decision.reason
       /\ IF decision.cont
            THEN /\ cycle_num' = cycle_num + 1
                 /\ pc' = "loop_head"
                 /\ UNCHANGED status
            ELSE /\ status' = StatusForReason(decision.reason, status)
                 /\ pc' = "after_loop"
                 /\ UNCHANGED cycle_num
    /\ UNCHANGED <<config_vars, fixes_generated, error_hash_counts, seen_error_hashes,
                   cancelled, runner_cancelled, cycle, todo, last_attempt,
                   applied_confidences, cancel_in_cycle, raised_in>>

\* Lines 200-209: the check after the loop, and the report is returned.
AfterLoop ==
    /\ pc = "after_loop"
    /\ status' = StatusAfterLoop(cycles, status)
    /\ pc' = "done"
    /\ UNCHANGED <<config_vars, fixes_generated, cycles, progress, error_hash_counts,
                   seen_error_hashes, cancelled, runner_cancelled, cycle_num,
                   cycle, todo, stop_reason, last_attempt, applied_confidences,
                   cancel_in_cycle, raised_in>>

\* VerificationLoop.cancel, called by another thread at any moment before
\* the run returns; ProjectRunner.cancel sets the runner's flag.
Cancel ==
    /\ pc # "done"
    /\ cancelled' = TRUE
    /\ runner_cancelled' = TRUE
    /\ cancel_in_cycle' = (cancel_in_cycle \/ pc \in InCycle)
    /\ UNCHANGED <<config_vars, fixes_generated, status, cycles, progress, error_hash_counts,
                   seen_error_hashes, pc, cycle_num, cycle, todo, stop_reason,
                   last_attempt, applied_confidences, raised_in>>

Next ==
    \/ Start
    \/ LoopHead
    \/ RunProject
    \/ RunTests
    \/ AttemptFix
    \/ RunProjectRaises
    \/ RunTestsRaises
    \/ AttemptFixRaises
    \/ CycleDone
    \/ AfterLoop
    \/ Cancel

Spec == Init /\ [][Next]_vars

\* The largest max_cycles of the loops that run with a setup.
MaxSetupCycles == 3

\* A freshly constructed loop for a project with or without an install
\* command, about to be called with setup=True or setup=False.
SetupInit ==
    /\ LoopInit
    /\ max_cycles \in 1..MaxSetupCycles
    /\ max_same_error_attempts \in 1..2
    /\ setup \in BOOLEAN
    /\ install_command \in BOOLEAN
    /\ max_retries = 1
    /\ ignores_term = {}
    /\ RunnerIdle
    /\ ComponentsIdleBut("none")

SetupSpec == SetupInit /\ [][Next]_vars

\* VerificationLoop.generate_report, once run_development_cycle has returned.
Returned == pc = "done"

generate_report ==
    [status |-> status, progress |-> progress, cycles |-> cycles]

(***************************************************************************)
(* ProjectRunner: one call of run_project, with its child processes.       *)
(***************************************************************************)
\* "".join(lines), lines 76 and 81.
RECURSIVE Join(_)
Join(lines) ==
    IF lines = <<>> THEN <<>> ELSE Head(lines) \o Join(Tail(lines))

\* OutputCapture.add_stdout and add_stderr, lines 61-71, under the lock.
AddLine(cap, s, line) ==
    IF cap.current_size < MaxOutputSize
      THEN [cap EXCEPT ![s] = Append(@, line),
                       !.current_size = @ + Len(line)]
      ELSE cap

\* The processes of the child's group that are still running; each of them
\* holds the write ends of both pipes.
GroupAlive == {p \in Procs : procs[p] = "running"}

\* SIGTERM sent to the processes targets: those that ignore it survive.
Terminated(ps, targets) ==
    [p \in Procs |-> IF p \in targets /\ ps[p] = "running"
                        /\ p \notin ignores_term
                       THEN "dead" ELSE ps[p]]

\* SIGKILL sent to the processes targets.
Killed(ps, targets) ==
    [p \in Procs |-> IF p \in targets /\ ps[p] = "running"
                       THEN "dead" ELSE ps[p]]

\* The exit status of the child after its processes went from ps to qs,
\* the child dying of signal number sig if it died.
ExitCodeAfter(ps, qs, sig) ==
    IF ps["shell"] = "running" /\ qs["shell"] = "dead" THEN Some(0 - sig)
    ELSE exit_code

\* A write in progress is lost with the process that was writing.
PendingAfter(qs) == IF qs["shell"] = "running" THEN pending ELSE NoWrite

\* A status that is success for every exit code that is not a signal.
StatusOfExit_Lax(code) == IF code >= 0 THEN "success" ELSE "failed"

\* Line 448: the status of an execution that ended by itself.
StatusOfExit(code) == IF code = 0 THEN "success" ELSE "failed"

\* The thread calling run_project has nothing to wait for.
Finished == {"done", "failed"}

MainDue ==
    \/ r_pc \in {"retry_head", "start", "after_exec", "detect"}
    \/ r_pc = "join_stdout"
         /\ (reader["stdout"] \in Finished \/ elapsed >= deadline)
    \/ r_pc = "join_stderr"
         /\ (reader["stderr"] \in Finished \/ elapsed >= deadline)
    \/ r_pc = "wait" /\ (procs["shell"] # "running" \/ elapsed >= deadline)

CancelDue ==
    /\ cancel_pc = "waiting"
    /\ (procs["shell"] # "running" \/ elapsed >= cancel_deadline)

\* One ProjectRunner about to be called, for each max_retries and each
\* set of processes that ignore SIGTERM.
RunnerInit ==
    /\ max_cycles = 1
    /\ max_same_error_attempts = 1
    /\ run_tests = FALSE
    /\ auto_fix = FALSE
    /\ LoopInit
    /\ setup = TRUE
    /\ install_command = FALSE
    /\ max_retries \in 1..MaxRetriesBound
    /\ ignores_term \in {{}, Procs}
    /\ RunnerIdle
    /\ ComponentsIdleBut("none")

\* run_project, lines 204-243: the flag is reset, the setup is run if asked
\* for, and the run command is determined.
RunProjectBegin ==
    /\ r_pc = "idle"
    /\ runner_cancelled' = FALSE
    /\ \/ \E errs \in ErrorLists :
            /\ result' = [NewExecutionResult EXCEPT
                             !.status = "failed",
                             !.message = "Setup failed",
                             !.errors = errs]
            /\ r_pc' = "returned"
       \/ /\ result' = [NewExecutionResult EXCEPT
                           !.status = "failed",
                           !.message = "No run command available"]
          /\ r_pc' = "returned"
       \/ /\ result' = NewExecutionResult
          /\ r_pc' = "retry_head"
    /\ executions' = 0
    /\ UNCHANGED <<loop_vars, max_retries, current_process, procs,
                   ignores_term, exit_code, writes_left, pending, pipe,
                   reader, capture, elapsed, deadline, exec_result, cancel_pc,
                   cancel_deadline, term_time, return_time>>

\* Lines 245-249: the head of "for attempt in range(self.max_retries)".
RetryHead ==
    /\ r_pc = "retry_head"
    /\ IF executions >= max_retries
         THEN /\ r_pc' = "detect"
              /\ UNCHANGED <<result, executions>>
         ELSE IF runner_cancelled
         THEN /\ result' = [result EXCEPT !.status = "cancelled",
                                          !.message = "Execution cancelled"]
              /\ r_pc' = "returned"
              /\ UNCHANGED executions
         ELSE /\ r_pc' = "start"
              /\ executions' = executions + 1
              /\ UNCHANGED result
    /\ UNCHANGED <<loop_vars, runner_cancelled, max_retries, current_process,
                   procs, ignores_term, exit_code, writes_left, pending, pipe,
                   reader, capture, elapsed, deadline, exec_result, cancel_pc,
                   cancel_deadline, term_time, return_time>>

\* _execute_command, lines 403-424 and 310-322: the child is spawned in its
\* own process group and the two reader threads are started; or Popen
\* raises, and lines 458-467 return the failure.
StartProcess ==
    /\ r_pc = "start"
    /\ elapsed' = 0
    /\ capture' = NewCapture
    /\ pipe' = [s \in Streams |-> <<>>]
    /\ pending' = NoWrite
    /\ exit_code' = None
    /\ term_time' = -1
    /\ \/ /\ \E w \in {"absent", "running"} :
               procs' = [p \in Procs |-> IF p = "shell" THEN "running" ELSE w]
          /\ current_process' = TRUE
          /\ UNCHANGED writes_left
          /\ reader' = [s \in Streams |-> "running"]
          /\ deadline' = ExecTimeout
          /\ r_pc' = "join_stdout"
          /\ return_time' = -1
          /\ UNCHANGED exec_result
       \/ /\ procs' = [p \in Procs |-> "absent"]
          /\ current_process' = FALSE
          /\ UNCHANGED writes_left
          /\ reader' = [s \in Streams |-> "not_started"]
          /\ deadline' = 0
          /\ exec_result' = [status |-> "failed", exit_code |-> Some(-1),
                             stdout |-> <<>>,
                             stderr |-> ExecutionErrorText,
                             spawned |-> FALSE]
          /\ r_pc' = "after_exec"
          /\ return_time' = 0
    /\ UNCHANGED <<loop_vars, runner_cancelled, max_retries, executions,
                   ignores_term, result, cancel_pc, cancel_deadline>>

\* What one execution leaves alone in the runner and the loop.
fixed_vars == <<loop_vars, max_retries, ignores_term>>

\* capture_output, line 325: stdout_thread.join(timeout=self.timeout).
JoinStdout ==
    /\ r_pc = "join_stdout"
    /\ reader["stdout"] \in Finished \/ elapsed >= deadline
    /\ r_pc' = "join_stderr"
    /\ deadline' = elapsed + JoinStderrTimeout
    /\ UNCHANGED <<fixed_vars, runner_cancelled, executions, current_process,
                   procs, exit_code, writes_left, pending, pipe, reader,
                   capture, elapsed, exec_result, result, cancel_pc,
                   cancel_deadline, term_time, return_time>>

\* capture_output, line 326: stderr_thread.join(timeout=1); then line 428
\* starts the wait for the process, with a timeout of its own.
JoinStderr ==
    /\ r_pc = "join_stderr"
    /\ reader["stderr"] \in Finished \/ elapsed >= deadline
    /\ r_pc' = "wait"
    /\ deadline' = elapsed + ExecTimeout
    /\ UNCHANGED <<fixed_vars, runner_cancelled, executions, current_process,
                   procs, exit_code, writes_left, pending, pipe, reader,
                   capture, elapsed, exec_result, result, cancel_pc,
                   cancel_deadline, term_time, return_time>>

\* Lines 428 and 447-456, then 467: wait returns the exit status of the
\* child, which is thereby reaped.
WaitReturns ==
    /\ r_pc = "wait"
    /\ procs["shell"] \in {"dead", "reaped"}
    /\ procs' = [procs EXCEPT !["shell"] = "reaped"]
    /\ exec_result' = [status |-> StatusOfExit(exit_code[1]),
                       exit_code |-> exit_code,
                       stdout |-> Join(capture.stdout),
                       stderr |-> Join(capture.stderr),
                       spawned |-> TRUE]
    /\ current_process' = FALSE
    /\ return_time' = elapsed
    /\ r_pc' = "after_exec"
    /\ UNCHANGED <<fixed_vars, runner_cancelled, executions, exit_code,
                   writes_left, pending, pipe, reader, capture, elapsed,
                   deadline, result, cancel_pc, cancel_deadline, term_time>>

\* Lines 429-445, then 467: the wait timed out; SIGTERM goes to the process
\* group and the timeout result is returned at once.
WaitTimesOut ==
    /\ r_pc = "wait"
    /\ procs["shell"] = "running"
    /\ elapsed >= deadline
    /\ LET after == Terminated(procs, Procs) IN
       /\ procs' = after
       /\ exit_code' = ExitCodeAfter(procs, after, 15)
       /\ pending' = PendingAfter(after)
    /\ term_time' = elapsed
    /\ exec_result' = [status |-> "timeout",
                       exit_code |-> Some(-1),
                       stdout |-> Join(capture.stdout),
                       stderr |-> Join(capture.stderr) \o TimeoutText,
                       spawned |-> TRUE]
    /\ current_process' = FALSE
    /\ return_time' = elapsed
    /\ r_pc' = "after_exec"
    /\ UNCHANGED <<fixed_vars, runner_cancelled, executions, writes_left,
                   pipe, reader, capture, elapsed, deadline, result,
                   cancel_pc, cancel_deadline>>

\* Lines 259-270: the execution's result is copied, and a failed execution
\* goes round the retry loop again.
AfterExec ==
    /\ r_pc = "after_exec"
    /\ result' = [result EXCEPT !.stdout = exec_result.stdout,
                                !.stderr = exec_result.stderr,
                                !.exit_code = exec_result.exit_code,
                                !.status = exec_result.status]
    /\ r_pc' = IF exec_result.status \in {"success", "timeout", "cancelled"}
                 THEN "detect" ELSE "retry_head"
    /\ UNCHANGED <<fixed_vars, runner_cancelled, executions, current_process,
                   procs, exit_code, writes_left, pending, pipe, reader,
                   capture, elapsed, deadline, exec_result, cancel_pc,
                   cancel_deadline, term_time, return_time>>

\* Lines 273-281: the errors detected in the output (none in an empty
\* output) turn a success into a failure.
DetectErrors ==
    /\ r_pc = "detect"
    /\ \E errs \in ErrorLists :
         /\ (result.stdout = <<>> /\ result.stderr = <<>>) => errs = <<>>
         /\ result' = [result EXCEPT
                          !.errors = errs,
                          !.status = IF errs # <<>> /\ @ = "success"
                                       THEN "failed" ELSE @]
    /\ r_pc' = "returned"
    /\ UNCHANGED <<fixed_vars, runner_cancelled, executions, current_process,
                   procs, exit_code, writes_left, pending, pipe, reader,
                   capture, elapsed, deadline, exec_result, cancel_pc,
                   cancel_deadline, term_time, return_time>>

\* _execute_command is between Popen and its return: what the processes and
\* the readers do later is read by nobody.
Executing == r_pc \in {"join_stdout", "join_stderr", "wait"}

\* The child starts to write a line to one of its streams.
ChildWrite ==
    /\ Executing
    /\ procs["shell"] = "running"
    /\ pending = NoWrite
    /\ writes_left > 0
    /\ \E s \in Streams, line \in ChildLines :
         pending' = [stream |-> s, line |-> line]
    /\ writes_left' = writes_left - 1
    /\ UNCHANGED <<fixed_vars, runner_cancelled, r_pc, executions,
                   current_process, procs, exit_code, pipe, reader, capture,
                   elapsed, deadline, exec_result, result, cancel_pc,
                   cancel_deadline, term_time, return_time>>

\* The write completes once the pipe has room for it.
ChildWriteCompletes ==
    /\ Executing
    /\ pending # NoWrite
    /\ Len(pipe[pending.stream]) < PipeCapacity
    /\ pipe' = [pipe EXCEPT ![pending.stream] = Append(@, pending.line)]
    /\ pending' = NoWrite
    /\ UNCHANGED <<fixed_vars, runner_cancelled, r_pc, executions,
                   current_process, procs, exit_code, writes_left, reader,
                   capture, elapsed, deadline, exec_result, result, cancel_pc,
                   cancel_deadline, term_time, return_time>>

\* The child exits by itself (exit code 0 or 1), or is killed by a signal
\* sent from outside the runner (SIGHUP: -1, SIGKILL: -9).
ChildEnds ==
    /\ Executing
    /\ procs["shell"] = "running"
    /\ \E code \in {0, 1, -1, -9} :
         /\ code >= 0 => pending = NoWrite
         /\ exit_code' = Some(code)
    /\ procs' = [procs EXCEPT !["shell"] = "dead"]
    /\ pending' = NoWrite
    /\ UNCHANGED <<fixed_vars, runner_cancelled, r_pc, executions,
                   current_process, writes_left, pipe, reader, capture,
                   elapsed, deadline, exec_result, result, cancel_pc,
                   cancel_deadline, term_time, return_time>>

\* The process forked by the child exits.
WorkerEnds ==
    /\ Executing
    /\ procs["worker"] = "running"
    /\ procs' = [procs EXCEPT !["worker"] = "dead"]
    /\ UNCHANGED <<fixed_vars, runner_cancelled, r_pc, executions,
                   current_process, exit_code, writes_left, pending, pipe,
                   reader, capture, elapsed, deadline, exec_result, result,
                   cancel_pc, cancel_deadline, term_time, return_time>>

\* read_stream, lines 298-308: one readline.  A line is added to the
\* capture; a line that cannot be decoded raises, and the except clause ends
\* the thread; the end of the stream, reached when the pipe is empty and no
\* process holds it open, ends the thread too.
ReadStream(s) ==
    /\ Executing
    /\ reader[s] = "running"
    /\ IF pipe[s] # <<>>
         THEN /\ pipe' = [pipe EXCEPT ![s] = Tail(@)]
              /\ IF Head(pipe[s]) = Undecodable
                   THEN /\ reader' = [reader EXCEPT ![s] = "failed"]
                        /\ UNCHANGED capture
                   ELSE /\ capture' = AddLine(capture, s, Head(pipe[s]))
                        /\ UNCHANGED reader
         ELSE /\ GroupAlive = {}
              /\ reader' = [reader EXCEPT ![s] = "done"]
              /\ UNCHANGED <<pipe, capture>>
    /\ UNCHANGED <<fixed_vars, runner_cancelled, r_pc, executions,
                   current_process, procs, exit_code, writes_left, pending,
                   elapsed, deadline, exec_result, result, cancel_pc,
                   cancel_deadline, term_time, return_time>>

ReadStdout == ReadStream("stdout")

ReadStderr == ReadStream("stderr")

\* ProjectRunner.cancel, lines 381-385: the flag is set and, if a process is
\* current, terminate() sends SIGTERM to that process alone.
CancelBegin ==
    /\ cancel_pc = "idle"
    /\ r_pc \notin {"idle", "returned"}
    /\ runner_cancelled' = TRUE
    /\ IF current_process
         THEN LET after == Terminated(procs, {"shell"}) IN
              /\ procs' = after
              /\ exit_code' = ExitCodeAfter(procs, after, 15)
              /\ pending' = PendingAfter(after)
              /\ cancel_pc' = "waiting"
              /\ cancel_deadline' = elapsed + TerminateGrace
         ELSE /\ cancel_pc' = "no_process"
              /\ UNCHANGED <<procs, exit_code, pending, cancel_deadline>>
    /\ UNCHANGED <<fixed_vars, r_pc, executions, current_process,
                   writes_left, pipe, reader, capture, elapsed, deadline,
                   exec_result, result, term_time, return_time>>

\* Lines 386-392: wait(timeout=5) returns because the process is dead; or
\* it times out and kill() sends SIGKILL to that process alone, unless
\* _current_process has been reset meanwhile (the AttributeError is
\* swallowed by line 391).
CancelEnd ==
    /\ cancel_pc = "waiting"
    /\ IF procs["shell"] # "running"
         THEN /\ procs' = [procs EXCEPT !["shell"] = "reaped"]
              /\ UNCHANGED <<exit_code, pending>>
         ELSE /\ elapsed >= cancel_deadline
              /\ LET after == IF current_process
                                THEN Killed(procs, {"shell"}) ELSE procs IN
                 /\ procs' = after
                 /\ exit_code' = ExitCodeAfter(procs, after, 9)
                 /\ pending' = PendingAfter(after)
    /\ cancel_pc' = "done"
    /\ UNCHANGED <<fixed_vars, runner_cancelled, r_pc, executions,
                   current_process, writes_left, pipe, reader, capture,
                   elapsed, deadline, exec_result, result, cancel_deadline,
                   term_time, return_time>>

\* Time passes while a thread is in a bounded wait that has neither ended
\* nor timed out: the clock moves on to the first deadline of such a wait.
\* What the processes and the readers do meanwhile is ordered, not timed.
NextDeadline ==
    LET main == IF Executing
                  THEN {deadline} ELSE {}
        other == IF cancel_pc = "waiting" THEN {cancel_deadline} ELSE {}
    IN  CHOOSE d \in main \cup other : \A e \in main \cup other : d <= e

Tick ==
    /\ Executing \/ cancel_pc = "waiting"
    /\ ~MainDue
    /\ ~CancelDue
    /\ elapsed' = NextDeadline
    /\ UNCHANGED <<fixed_vars, runner_cancelled, r_pc, executions,
                   current_process, procs, exit_code, writes_left, pending,
                   pipe, reader, capture, deadline, exec_result, result,
                   cancel_pc, cancel_deadline, term_time, return_time>>

RunnerNext ==
    \/ RunProjectBegin
    \/ RetryHead
    \/ StartProcess
    \/ JoinStdout
    \/ JoinStderr
    \/ WaitReturns
    \/ WaitTimesOut
    \/ AfterExec
    \/ DetectErrors
    \/ ChildWrite
    \/ ChildWriteCompletes
    \/ ChildEnds
    \/ WorkerEnds
    \/ ReadStdout
    \/ ReadStderr
    \/ CancelBegin
    \/ CancelEnd
    \/ Tick

RunnerSpec == RunnerInit /\ [][RunnerNext]_vars

(***************************************************************************)
(* Properties of run_development_cycle.                                    *)
(***************************************************************************)
TerminalStatus == {"success", "failed", "max_retries_reached",
                   "stuck_in_loop", "needs_human_help", "cancelled"}

\* The loop has left the for loop (or the try block) for good.
Stopped == pc \in {"after_loop", "done"}

LastCycle == cycles[Len(cycles)]

\* C1: whenever run_development_cycle returns, the status of the report is one
\* of the terminal states, never not_started or running.
C1_ReturnsTerminalStatus ==
    Returned => generate_report.status \in TerminalStatus

\* C2: a final status of success means that the last executed cycle ran
\* cleanly: its execution ended with status success, its tests (when enabled)
\* succeeded, and its status tag is "success".
C2_SuccessMeansCleanLastCycle ==
    (Returned /\ status = "success") =>
        /\ Len(cycles) >= 1
        /\ LastCycle.execution_result.status = "success"
        /\ run_tests => (LastCycle.test_result.ran /\ LastCycle.test_result.success)
        /\ LastCycle.status = "success"

\* The execution of cycle c ended with status success and no detected error.
CleanExecution(c) ==
    /\ c.execution_result.status = "success"
    /\ c.execution_result.errors = <<>>

\* The run ended with status Success at recorded cycle i: no later cycle.
EndsInSuccessAt(i) ==
    /\ i = Len(cycles)
    /\ Stopped
    /\ status = "success"

HashSet(c) == {ErrorHash(c.errors_found[i]) : i \in 1..Len(c.errors_found)}

\* C4: after three consecutive cycles whose sets of error hashes are pairwise
\* equal and non-empty, the loop stops with status StuckInLoop.
C4_ThreeEqualHashSetsStuck ==
    \A i \in 1..(Len(cycles) - 2) :
        (/\ HashSet(cycles[i]) # {}
         /\ HashSet(cycles[i]) = HashSet(cycles[i + 1])
         /\ HashSet(cycles[i + 1]) = HashSet(cycles[i + 2]))
        => (/\ i + 2 = Len(cycles)
            /\ Stopped
            /\ status = "stuck_in_loop")

\* The scenario of C5: auto-fix is on, the run was not cancelled, nothing
\* raised, every cycle's run failed with the one error e, and no fix at or
\* above the threshold was ever produced.
SameUnfixedError(e) ==
    /\ auto_fix
    /\ ~cancelled
    /\ raised_in = "none"
    /\ applied_confidences = {}
    /\ \A i \in 1..Len(cycles) :
          /\ cycles[i].execution_result.status = "failed"
          /\ cycles[i].errors_found = <<e>>

\* C5 as stated: in that scenario the loop stops after max_same_error_attempts
\* cycles with status NeedsHumanHelp, whenever
\* 1 <= max_same_error_attempts <= max_cycles.
C5_SameErrorNeedsHumanHelp ==
    \A e \in ErrorIds :
        (/\ Returned
         /\ SameUnfixedError(e)
         /\ max_same_error_attempts <= max_cycles)
        => (/\ status = "needs_human_help"
            /\ Len(cycles) = max_same_error_attempts)

\* C5, amended: in that scenario the loop stops after
\* min(max_same_error_attempts, 3) cycles; its status is NeedsHumanHelp when
\* max_same_error_attempts is 1 or 2, and StuckInLoop when it is 3 or more
\* (the third identical cycle is first seen by the stuck-loop test).
C5_SameErrorNeedsHelpOrStuck ==
    \A e \in ErrorIds :
        (/\ Returned
         /\ SameUnfixedError(e)
         /\ max_same_error_attempts <= max_cycles)
        => IF max_same_error_attempts < TrendWindow
             THEN /\ status = "needs_human_help"
                  /\ Len(cycles) = max_same_error_attempts
             ELSE /\ status = "stuck_in_loop"
                  /\ Len(cycles) = TrendWindow

C5_Witness ==
    /\ Returned
    /\ SameUnfixedError("E3")
    /\ max_same_error_attempts = 2
    /\ max_cycles >= 3
    /\ Len(cycles) = 2
    /\ Len(cycles[2].fixes_attempted) = 1
    /\ status = "needs_human_help"

\* The for loop ran out of cycle numbers.
LoopExhausted == cycle_num > max_cycles

\* The longest list of errors a fix loop visits.
MaxTodo == CHOOSE n \in 0..Cardinality(ErrorIds) :
              /\ \A l \in ErrorLists : Len(l) <= n
              /\ \E l \in ErrorLists : Len(l) = n

\* The number of steps run_development_cycle can still take: the iterations
\* left, and the position inside the current one.
StepsLeft ==
    LET width == MaxTodo + 4
        inside == CASE pc = "loop_head" -> MaxTodo + 3
                    [] pc = "run" -> MaxTodo + 2
                    [] pc = "test" -> MaxTodo + 1
                    [] pc \in {"fix_exec", "fix_test"} -> Len(todo)
                    [] OTHER -> 0
    IN  CASE pc = "not_started" -> 3 + (max_cycles + 1) * width
          [] pc = "done" -> 0
          [] pc = "after_loop" -> 1
          [] OTHER -> 2 + (max_cycles + 1 - cycle_num) * width + inside

\* C6: the run terminates after at most max_cycles cycles: never more than
\* max_cycles cycles are started or recorded, every step of the run lowers
\* the natural number StepsLeft (only cancel(), a step of another thread,
\* leaves it alone), and a run that stops only because the cycle count
\* reached max_cycles reports MaxCyclesReached.
C6_AtMostMaxCycles ==
    /\ [](/\ Len(cycles) <= max_cycles
          /\ StepsLeft >= 0
          /\ pc \in InCycle \cup {"cycle_done"} =>
                (cycle.cycle_number <= max_cycles /\ Len(cycles) < max_cycles)
          /\ (Returned /\ raised_in = "none" /\ LoopExhausted) =>
                (status = "max_retries_reached" /\ Len(cycles) = max_cycles))
    /\ [][IF UNCHANGED <<pc, cycle_num, todo>>
            THEN cancelled' /\ UNCHANGED <<status, cycles, cycle>>
            ELSE StepsLeft' < StepsLeft]_vars

C6_Witness ==
    /\ Returned
    /\ LoopExhausted
    /\ max_cycles = 3
    /\ Len(cycles) = 3
    /\ status = "max_retries_reached"

\* C7: an exception of any step of a cycle is not propagated: the run returns
\* with status Failed and a report that holds exactly the cycles completed
\* before the cycle that raised.
C7_ExceptionGivesFailedReport ==
    raised_in # "none" =>
        /\ Returned
        /\ generate_report.status = "failed"
        /\ Len(generate_report.cycles) = cycle.cycle_number - 1
        /\ \A i \in 1..Len(cycles) : cycles[i].cycle_number = i

C7_Witness ==
    /\ raised_in = "apply"
    /\ Returned
    /\ Len(cycles) = 1
    /\ status = "failed"

\* C8: no hash is ever counted more than max_same_error_attempts times, and an
\* error whose hash is at the cap is skipped: nothing is analysed, generated
\* or applied for it and nothing is counted.
C8_AttemptsCapped ==
    /\ \A h \in Hashes : error_hash_counts[h] <= max_same_error_attempts
    /\ (last_attempt.error # "none"
        /\ last_attempt.count_before >= max_same_error_attempts) =>
          /\ last_attempt.skipped
          /\ ~last_attempt.analyzed
          /\ ~last_attempt.generated
          /\ ~last_attempt.applied
          /\ last_attempt.returned = "none"
          /\ error_hash_counts[ErrorHash(last_attempt.error)]
                = last_attempt.count_before

C8_Witness ==
    /\ last_attempt.skipped
    /\ last_attempt.error = "E2"
    /\ last_attempt.count_before = max_same_error_attempts
    /\ max_same_error_attempts = 3

\* The fix attempts recorded in the cycles, the one in progress included.
AllCycles == IF pc \in InCycle \cup {"cycle_done"}
               THEN Append(cycles, cycle) ELSE cycles

\* C9: a generated fix below the confidence threshold is never applied; it is
\* recorded in its cycle as an attempted fix with an unsuccessful result, and
\* it uses one attempt of its error.
C9_LowConfidenceNotApplied ==
    /\ \A c \in applied_confidences : c >= confidence_threshold
    /\ \A i \in 1..Len(AllCycles) :
         \A j \in 1..Len(AllCycles[i].fixes_attempted) :
            LET fa == AllCycles[i].fixes_attempted[j] IN
            fa.confidence < confidence_threshold =>
                (~fa.success /\ fa.message = "confidence_too_low")
    /\ (last_attempt.generated
        /\ last_attempt.confidence < confidence_threshold) =>
          /\ ~last_attempt.applied
          /\ last_attempt.returned = "attempt"
          /\ error_hash_counts[ErrorHash(last_attempt.error)]
                >= last_attempt.count_before + 1
          /\ LET fixes == AllCycles[last_attempt.cycle].fixes_attempted IN
             \E j \in 1..Len(fixes) :
                /\ fixes[j].error = last_attempt.error
                /\ fixes[j].confidence = last_attempt.confidence
                /\ ~fixes[j].success
                /\ fixes[j].message = "confidence_too_low"

C9_Witness ==
    /\ last_attempt.generated
    /\ last_attempt.confidence = confidence_threshold - 1
    /\ pc = "cycle_done"
    /\ cycle.fixes_failed = 1
    /\ Len(cycle.fixes_attempted) = 1

\* C10: if cancel() is called while a cycle is executing (and no step raises),
\* the final status of the run is Cancelled.
C10_CancelInCycleGivesCancelled ==
    (Returned /\ cancel_in_cycle /\ raised_in = "none") => status = "cancelled"

(***************************************************************************)
(* Properties of ProjectRunner (RunnerSpec).                               *)
(***************************************************************************)
\* _execute_command has just returned exec_result.
ExecReturned == r_pc = "after_exec"

\* C11: when an execution that timed out returns, no process of the child's
\* process group is still running, even if a process ignores SIGTERM.
C11_TimeoutLeavesNoProcess ==
    (ExecReturned /\ exec_result.status = "timeout") => GroupAlive = {}

\* C12: one run_project call executes the run command at most once.
C12_AtMostOneExecution == executions <= 1

SpawnFailureResult ==
    [status |-> "failed", exit_code |-> Some(-1), stdout |-> <<>>,
     stderr |-> ExecutionErrorText, spawned |-> FALSE]

\* C14: the record returned for a child that was started differs (in its
\* status, exit code or output) from the record returned when no child
\* could be spawned.
C14_SpawnFailureDistinguishable ==
    (ExecReturned /\ exec_result.spawned) =>
        [exec_result EXCEPT !.spawned = FALSE] # SpawnFailureResult

\* C15: once cancel() has signalled a running execution, every process of
\* the group that does not ignore SIGTERM is dead, and when cancel() is over
\* no process of the group is running.
C15_CancelTerminatesGroup ==
    /\ cancel_pc = "waiting" =>
          \A p \in Procs \ ignores_term : procs[p] # "running"
    /\ cancel_pc = "done" => GroupAlive = {}

\* C16: the captured stdout and stderr together never exceed max_size.
C16_CaptureWithinCap ==
    /\ capture.current_size <= MaxOutputSize
    /\ Len(Join(capture.stdout)) + Len(Join(capture.stderr))
          <= MaxOutputSize

\* C17: while an execution is in progress, a stream whose pipe holds a line
\* (a full pipe, on which the next write of the child blocks) has its reader
\* running, so that the pipe is drained whatever happens on the other
\* stream.
C17_FullPipeIsDrained ==
    \A s \in Streams :
        (Executing /\ pipe[s] # <<>>) => reader[s] = "running"

\* C18: a timed-out execution has signalled the group, and returned, no
\* later than timeout plus the grace period after the child was spawned.
C18_TimeoutWithinDeadline ==
    (ExecReturned /\ exec_result.status = "timeout") =>
        /\ term_time <= ExecTimeout + TerminateGrace
        /\ return_time <= ExecTimeout + TerminateGrace

(***************************************************************************)
(* Properties of the fix loop of a cycle.                                  *)
(***************************************************************************)
\* A step of the fix loop that returns from _attempt_fix.
FixStep ==
    /\ pc \in {"fix_exec", "fix_test"}
    /\ pc' \in {"fix_exec", "fix_test", "cycle_done"}
    /\ todo # <<>>
    /\ todo' = Tail(todo)

\* The fix loop goes on after the error at the head of todo: to the next
\* error of the cycle, or to the end of the cycle and should_continue.
FixLoopGoesOn ==
    /\ todo' = Tail(todo)
    /\ pc' = IF Tail(todo) = <<>> THEN "cycle_done" ELSE pc
    /\ status' = status
    /\ raised_in' = raised_in

\* C19: when generate_fix returns no fix for an error, nothing is applied
\* and nothing is recorded for it, the run does not become Failed, and the
\* fix loop goes on to the remaining errors and to the continuation
\* decision; a run in which nothing raised never ends Failed.
C19_NoFixIsNotFatal ==
    /\ [](raised_in = "none" => status # "failed")
    /\ [][(/\ FixStep
           /\ error_hash_counts' # error_hash_counts
           /\ fixes_generated' = fixes_generated)
          => (/\ applied_confidences' = applied_confidences
              /\ cycle'.fixes_attempted = cycle.fixes_attempted
              /\ cycle'.fixes_successful = cycle.fixes_successful
              /\ cycle'.fixes_failed = cycle.fixes_failed
              /\ ~last_attempt'.generated
              /\ ~last_attempt'.applied
              /\ FixLoopGoesOn)]_vars

C19_Witness ==
    /\ last_attempt.analyzed
    /\ ~last_attempt.generated
    /\ last_attempt.cycle = cycle_num
    /\ pc \in {"fix_exec", "fix_test"}
    /\ todo # <<>>
    /\ raised_in = "none"
    /\ cycle.fixes_attempted = <<>>

\* C20: a fix attempt that fails leaves the fixes recorded and applied
\* earlier in the cycle as they were and is followed by the attempts for
\* the remaining errors; the cycle is recorded with all of them, and the
\* loop never takes a recorded fix back.
C20_FailedFixKeepsEarlierFixes ==
    /\ [][FixStep =>
            LET old == cycle.fixes_attempted
                new == cycle'.fixes_attempted
            IN  /\ Len(new) >= Len(old)
                /\ SubSeq(new, 1, Len(old)) = old
                /\ cycle'.fixes_successful >= cycle.fixes_successful
                /\ applied_confidences \subseteq applied_confidences'
                /\ (Len(new) > Len(old) /\ ~new[Len(new)].success) =>
                      /\ cycle'.fixes_successful = cycle.fixes_successful
                      /\ cycle'.fixes_failed = cycle.fixes_failed + 1
                      /\ FixLoopGoesOn]_vars
    /\ [][pc = "cycle_done" /\ pc' # "cycle_done" =>
            /\ Len(cycles') = Len(cycles) + 1
            /\ cycles'[Len(cycles')] = cycle]_vars
    /\ [][\A i \in 1..Len(cycles) :
            /\ i <= Len(cycles')
            /\ cycles'[i] = cycles[i]]_vars

C20_Witness ==
    /\ Len(cycles) = 1
    /\ Len(cycles[1].fixes_attempted) = 2
    /\ cycles[1].fixes_attempted[1].success
    /\ cycles[1].fixes_attempted[1].message = "applied"
    /\ ~cycles[1].fixes_attempted[2].success
    /\ cycles[1].fixes_successful = 1
    /\ pc = "run"
    /\ cycle_num = 2

(***************************************************************************)
(* ErrorDetector (src/ai_orchestrator/execution/error_detector.py).        *)
(*                                                                         *)
(* A text is the sequence of its lines (str.split on the newline), and a   *)
(* line is a sequence of atoms: a word, a space, a quote, a dot or one     *)
(* digit.  The rows of ERROR_PATTERNS and the tests of suggest_fixes kept  *)
(* here are the ones that can match a line made of these atoms.            *)
(***************************************************************************)
DigitAtoms == {"1", "2"}

\* The atoms of the character class [\w\.] of suggest_fixes, line 425.
WordAtoms == {"requests", "adapters", ".", "N", "1", "2", "ok", "No", "no",
              "module", "named", "pip", "install"}

\* str.lower, on the atoms that have an upper-case letter.
Lower(atom) ==
    CASE atom = "TypeError:" -> "typeerror:"
      [] atom = "ModuleNotFoundError:" -> "modulenotfounderror:"
      [] atom = "No" -> "no"
      [] atom = "N" -> "n"
      [] OTHER -> atom

LowerLine(line) == [i \in 1..Len(line) |-> Lower(line[i])]

\* str.strip
Strip(line) ==
    LET inked == {i \in 1..Len(line) : line[i] # " "}
    IN  IF inked = {} THEN <<>>
        ELSE SubSeq(line, CHOOSE i \in inked : \A j \in inked : i <= j,
                          CHOOSE i \in inked : \A j \in inked : i >= j)

\* "needle in haystack" on strings: the places where needle occurs.
Occurrences(needle, haystack) ==
    {i \in 1..(Len(haystack) - Len(needle) + 1) :
        SubSeq(haystack, i, i + Len(needle) - 1) = needle}

\* re.search(pattern, line, re.IGNORECASE) for a pattern without operators.
SearchIgnoreCase_Anchored(pattern, line) ==
    LowerLine(pattern) = LowerLine(line)

SearchIgnoreCase(pattern, line) ==
    Occurrences(LowerLine(pattern), LowerLine(line)) # {}

\* ERROR_PATTERNS, in the order of the dict literal.
ERROR_PATTERNS ==
    << [category |-> "dependency",
        patterns |-> << <<"pip", " ", "install">> >>],
       [category |-> "import",
        patterns |-> << <<"ModuleNotFoundError:">>,
                        <<"No", " ", "module", " ", "named">> >>],
       [category |-> "type",
        patterns |-> << <<"TypeError:">> >>] >>

\* _categorize_line: the category of the first row with a matching pattern.
categorize_line(line) ==
    LET rows == {r \in 1..Len(ERROR_PATTERNS) :
                    \E k \in 1..Len(ERROR_PATTERNS[r].patterns) :
                       SearchIgnoreCase(ERROR_PATTERNS[r].patterns[k], line)}
    IN  IF rows = {} THEN "unknown"
        ELSE ERROR_PATTERNS[CHOOSE r \in rows : \A q \in rows : r <= q]
                 .category

\* re.sub(r'\d+', 'N', message): every maximal run of digits becomes one
\* N (the N is written for the last digit of the run).
RECURSIVE Normalize(_)
Normalize(s) ==
    IF s = <<>> THEN <<>>
    ELSE IF Head(s) \notin DigitAtoms THEN <<Head(s)>> \o Normalize(Tail(s))
    ELSE IF Tail(s) # <<>> /\ Head(Tail(s)) \in DigitAtoms
         THEN Normalize(Tail(s))
         ELSE <<"N">> \o Normalize(Tail(s))

\* _deduplicate_errors: an error is kept when the normalized form of its
\* message has not been seen in the list before it.
RECURSIVE Dedup(_, _)
Dedup(errors, seen_messages) ==
    IF errors = <<>> THEN <<>>
    ELSE LET normalized == Normalize(Strip(Head(errors).message))
         IN  IF normalized \in seen_messages
             THEN Dedup(Tail(errors), seen_messages)
             ELSE <<Head(errors)>>
                    \o Dedup(Tail(errors), seen_messages \cup {normalized})

deduplicate_errors_KeepAll(errors) == errors

deduplicate_errors(errors) == Dedup(errors, {})

\* FIX_SUGGESTIONS.get(category, []).  A suggestion is a tuple of its
\* parts, so that the one built from a module name is a value like the
\* others.
FIX_SUGGESTIONS(category) ==
    CASE category = "dependency" ->
           << <<"Run 'npm install' or 'pip install -r requirements.txt'">>,
              <<"Check if the package name is correct">>,
              <<"Try clearing node_modules and reinstalling">>,
              <<"Check for version conflicts in dependencies">> >>
      [] category = "import" ->
           << <<"Verify the module is installed">>,
              <<"Check the import path is correct">>,
              <<"Ensure the file exists at the expected location">> >>
      [] category = "type" ->
           << <<"Check the types of variables being used">>,
              <<"Verify function arguments match expected types">>,
              <<"Look for undefined or null values">> >>
      [] OTHER -> <<>>

\* The loop of parse_error_logs from line i on: a DetectedError for each
\* line with a category (the fields that depend on the line alone).
RECURSIVE ErrorsFrom(_, _)
ErrorsFrom(lines, i) ==
    IF i > Len(lines) THEN <<>>
    ELSE IF categorize_line(lines[i]) # "unknown"
         THEN << [category |-> categorize_line(lines[i]),
                  message |-> Strip(lines[i]),
                  suggested_fixes |->
                      FIX_SUGGESTIONS(categorize_line(lines[i]))] >>
                \o ErrorsFrom(lines, i + 1)
         ELSE ErrorsFrom(lines, i + 1)

\* parse_error_logs: f"{output}\n{stderr}" split on the newline is the
\* lines of output followed by the lines of stderr.
parse_error_logs(output, stderr) ==
    deduplicate_errors(ErrorsFrom(output \o stderr, 1))

\* The longest prefix of s made of the atoms of class.
RECURSIVE Run(_, _)
Run(s, class) ==
    IF s # <<>> /\ Head(s) \in class
    THEN <<Head(s)>> \o Run(Tail(s), class)
    ELSE <<>>

NoModuleNamed == <<"No", " ", "module", " ", "named", " ">>

\* The group of re.search(r"No module named ['\"]?([\w\.]+)['\"]?", message)
\* when the pattern is tried at place i: <<>> when it does not match there.
GroupAt(message, i) ==
    LET rest == SubSeq(message, i + Len(NoModuleNamed), Len(message))
    IN  IF rest # <<>> /\ Head(rest) = "'" /\ Run(Tail(rest), WordAtoms) # <<>>
        THEN Run(Tail(rest), WordAtoms)
        ELSE Run(rest, WordAtoms)

\* suggest_fixes, lines 401-429; the module is match.group(1).split(".")[0].
suggest_fixes(error) ==
    LET message_lower == LowerLine(error.message)
        base == FIX_SUGGESTIONS(error.category)
        withPip == IF Occurrences(<<"pip">>, message_lower) # {}
                   THEN Append(base,
                               <<"Try creating a fresh virtual environment">>)
                   ELSE base
        places == {i \in Occurrences(NoModuleNamed, error.message) :
                      GroupAt(error.message, i) # <<>>}
    IN  IF /\ Occurrences(<<"no", " ", "module", " ", "named">>,
                          message_lower) # {}
           /\ places # {}
        THEN LET first == CHOOSE i \in places : \A j \in places : i <= j
             IN  << <<"Install missing module: pip install ">>
                      \o Run(GroupAt(error.message, first),
                             WordAtoms \ {"."}) >>
                 \o withPip
        ELSE withPip

\* The lines the texts of the model are made of.
ImportLine == <<"ModuleNotFoundError:", " ", "No", " ", "module", " ",
                "named", " ", "'", "requests", "'">>

DetectorLines ==
    { <<>>,
      <<"ok">>,
      <<"TypeError:", " ", "1">>,
      <<"TypeError:", " ", "2", "1">>,
      <<"TypeError:", " ", "N">>,
      <<" ", "TypeError:", " ", "2", " ">>,
      <<"TypeError:", " ", "1", ".", "2">>,
      ImportLine,
      <<"pip", " ", "install", ":", " ", "No", " ", "module", " ", "named",
        " ", "requests", ".", "adapters">>,
      <<"no", " ", "module", " ", "named", " ", "requests">> }

MaxTextLines == 2

\* An ErrorDetector about to be called with each pair of texts.
DetectorInit ==
    /\ EngineIdle
    /\ ComponentsIdleBut("detector")
    /\ det_output \in UNION {[1..n -> DetectorLines] : n \in 1..MaxTextLines}
    /\ det_stderr \in {<<l>> : l \in DetectorLines}
    /\ det_pc = "idle"
    /\ det_errors = <<>>
    /\ det_suggestions = <<>>

ParseErrorLogs ==
    /\ det_pc = "idle"
    /\ det_errors' = parse_error_logs(det_output, det_stderr)
    /\ det_pc' = "parsed"
    /\ UNCHANGED <<detector_frame, det_output, det_stderr, det_suggestions>>

\* suggest_fixes, called on each error that parse_error_logs returned.
SuggestFixes ==
    /\ det_pc = "parsed"
    /\ det_suggestions' =
          [i \in 1..Len(det_errors) |-> suggest_fixes(det_errors[i])]
    /\ det_pc' = "suggested"
    /\ UNCHANGED <<detector_frame, det_output, det_stderr, det_errors>>

DetectorNext ==
    \/ ParseErrorLogs
    \/ SuggestFixes

DetectorSpec == DetectorInit /\ [][DetectorNext]_vars

(***************************************************************************)
(* Properties of ErrorDetector.                                            *)
(***************************************************************************)
\* The lines parse_error_logs goes through, and the places of the ones
\* that match a pattern.
CombinedLines == det_output \o det_stderr

MatchedPlaces ==
    {i \in 1..Len(CombinedLines) : categorize_line(CombinedLines[i]) # "unknown"}

NormalizedLine(i) == Normalize(Strip(CombinedLines[i]))

\* The matched lines that no earlier matched line equals after
\* normalization.
FirstPlaces ==
    {i \in MatchedPlaces :
        \A j \in MatchedPlaces : j < i => NormalizedLine(j) # NormalizedLine(i)}

NthFirstPlace(n) ==
    CHOOSE k \in FirstPlaces : Cardinality({m \in FirstPlaces : m <= k}) = n

\* C21: parse_error_logs returns no two errors whose messages are equal
\* once every run of digits is replaced by N, and what it returns is, in
\* input order, the first matched line of each normalized message.
C21_DedupKeepsFirstOccurrences ==
    det_pc # "idle" =>
        /\ \A i, j \in 1..Len(det_errors) :
              i # j => Normalize(det_errors[i].message)
                          # Normalize(det_errors[j].message)
        /\ Len(det_errors) = Cardinality(FirstPlaces)
        /\ \A n \in 1..Len(det_errors) :
              det_errors[n].message = Strip(CombinedLines[NthFirstPlace(n)])

\* Three matched lines, the second a repeat of the first and dropped, the
\* third kept.
C21_Witness ==
    /\ det_pc = "parsed"
    /\ MatchedPlaces = {1, 2, 3}
    /\ FirstPlaces = {1, 3}
    /\ CombinedLines[1] # CombinedLines[2]
    /\ Len(det_errors) = 2

\* C27: for the output "ModuleNotFoundError: No module named 'requests'"
\* parse_error_logs returns exactly one error, of category import, and
\* suggest_fixes for it has a suggestion that names the package requests.
C27_ImportLineGivesPipSuggestion ==
    (det_pc # "idle" /\ det_output = <<ImportLine>> /\ det_stderr = << <<>> >>)
        => /\ Len(det_errors) = 1
           /\ det_errors[1].category = "import"
           /\ det_errors[1].message = ImportLine
           /\ det_pc = "suggested" =>
                 \E k \in 1..Len(det_suggestions[1]) :
                    Occurrences(<<"requests">>, det_suggestions[1][k]) # {}

C27_Witness ==
    /\ det_pc = "suggested"
    /\ det_output = <<ImportLine>>
    /\ det_stderr = << <<>> >>
    /\ Len(det_suggestions) = 1
    /\ det_suggestions[1][1]
          = <<"Install missing module: pip install ", "requests">>

(***************************************************************************)
(* FixStrategyRegistry (src/ai_orchestrator/execution/fix_strategies.py).  *)
(* A FixStrategy is its name, its error_categories and 100 times its       *)
(* confidence.                                                             *)
(***************************************************************************)
Strategy(name, categories, confidence) ==
    [name |-> name, error_categories |-> categories,
     confidence |-> confidence]

\* _register_default_strategies, in registration order.
DefaultStrategies ==
    << Strategy("npm_install", {"dependency", "import"}, 90),
       Strategy("npm_clean_install", {"dependency"}, 80),
       Strategy("pip_install_requirements", {"dependency", "import"}, 90),
       Strategy("pip_install_module", {"import"}, 85),
       Strategy("npm_install_module", {"import"}, 85),
       Strategy("kill_port_process", {"port_in_use"}, 90),
       Strategy("change_port", {"port_in_use"}, 70),
       Strategy("fix_file_permissions", {"permission"}, 80),
       Strategy("fix_directory_permissions", {"permission"}, 80),
       Strategy("create_env_file", {"configuration", "file_not_found"}, 90),
       Strategy("fix_config_syntax", {"configuration", "syntax"}, 60),
       Strategy("fix_relative_import", {"import"}, 70),
       Strategy("add_missing_import", {"import"}, 75),
       Strategy("fix_indentation", {"syntax"}, 70),
       Strategy("fix_bracket_mismatch", {"syntax"}, 60),
       Strategy("fix_missing_semicolon", {"syntax"}, 80) >>

\* The strategies a caller may register after construction, at most.
MaxRegistered == 1

\* sorted(applicable, key=lambda s: s.confidence, reverse=True): a stable
\* sort, so strategies of equal confidence keep their order.
RECURSIVE SortedByConfidence(_)
SortedByConfidence(seq) ==
    IF seq = <<>> THEN <<>>
    ELSE LET best == CHOOSE i \in 1..Len(seq) :
                        /\ \A j \in 1..Len(seq) :
                              seq[j].confidence <= seq[i].confidence
                        /\ \A j \in 1..(i - 1) :
                              seq[j].confidence < seq[i].confidence
         IN  <<seq[best]>>
               \o SortedByConfidence(SubSeq(seq, 1, best - 1)
                                       \o SubSeq(seq, best + 1, Len(seq)))

\* The list comprehension of get_strategies_for_error, lines 215-218.
Applicable(strategies, category, min_confidence) ==
    LET Test(s) == /\ category \in s.error_categories
                   /\ s.confidence >= min_confidence
    IN  SelectSeq(strategies, Test)

get_strategies_for_error_Unsorted(strategies, category, min_confidence) ==
    Applicable(strategies, category, min_confidence)

get_strategies_for_error(strategies, category, min_confidence) ==
    SortedByConfidence(Applicable(strategies, category, min_confidence))

\* FixStrategyRegistry(), and the arguments of the call to come.
RegistryInit ==
    /\ EngineIdle
    /\ ComponentsIdleBut("registry")
    /\ reg_strategies = DefaultStrategies
    /\ reg_category \in {"dependency", "import", "syntax", "permission",
                         "port_in_use", "configuration", "file_not_found",
                         "unknown"}
    /\ reg_min_confidence \in {0, 50, 75, 85, 90, 100}
    /\ reg_pc = "idle"
    /\ reg_result = <<>>

\* register
Register ==
    /\ reg_pc = "idle"
    /\ Len(reg_strategies) < Len(DefaultStrategies) + MaxRegistered
    /\ \E categories \in {{"import"}, {"syntax", "unknown"}},
          confidence \in {40, 85, 100} :
          reg_strategies' =
              Append(reg_strategies, Strategy("custom", categories, confidence))
    /\ UNCHANGED <<registry_frame, reg_category, reg_min_confidence, reg_pc,
                   reg_result>>

GetStrategiesForError ==
    /\ reg_pc = "idle"
    /\ reg_result' = get_strategies_for_error(reg_strategies, reg_category,
                                              reg_min_confidence)
    /\ reg_pc' = "returned"
    /\ UNCHANGED <<registry_frame, reg_strategies, reg_category,
                   reg_min_confidence>>

RegistryNext ==
    \/ Register
    \/ GetStrategiesForError

RegistrySpec == RegistryInit /\ [][RegistryNext]_vars

(***************************************************************************)
(* Properties of FixStrategyRegistry.                                      *)
(***************************************************************************)
Times(s, seq) == Cardinality({i \in 1..Len(seq) : seq[i] = s})

\* C22: get_strategies_for_error returns exactly the registered strategies
\* whose categories contain the error's category and whose confidence is at
\* least min_confidence (each as often as it is registered), in
\* non-increasing order of confidence.
C22_ApplicableStrategiesByConfidence ==
    reg_pc = "returned" =>
        /\ \A s \in Range(reg_strategies) \cup Range(reg_result) :
              Times(s, reg_result) =
                  IF /\ reg_category \in s.error_categories
                     /\ s.confidence >= reg_min_confidence
                  THEN Times(s, reg_strategies)
                  ELSE 0
        /\ \A i, j \in 1..Len(reg_result) :
              i < j => reg_result[i].confidence >= reg_result[j].confidence

\* The import strategies at the default threshold with a registered one:
\* seven strategies, of which the one registered last comes first.
C22_Witness ==
    /\ reg_pc = "returned"
    /\ reg_category = "import"
    /\ reg_min_confidence = 50
    /\ Len(reg_strategies) > Len(DefaultStrategies)
    /\ Len(reg_result) = 7
    /\ reg_result[1].name = "custom"
    /\ reg_result[7].name = "fix_relative_import"

(***************************************************************************)
(* PermissionFixer and ConfigurationFixer                                  *)
(* (src/ai_orchestrator/execution/fix_strategies.py).                      *)
(*                                                                         *)
(* The project directory is a function from entry names to entries: an     *)
(* entry is absent, a file or a directory with permission bits (written in *)
(* octal), or a symbolic link to another name.  st_mode is the pair of the *)
(* entry's type and its permission bits; chmod uses the bits only.         *)
(***************************************************************************)
Entry(kind, perms, target) == [kind |-> kind, perms |-> perms, target |-> target]

Absent == Entry("absent", "", "")

\* The entry a path leads to: stat, chmod and open follow a symbolic link.
Resolve(dir, name) ==
    IF dir[name].kind = "link" THEN dir[name].target ELSE name

\* Path.exists(): false for a link whose target is missing.
Exists(dir, name) == dir[Resolve(dir, name)].kind # "absent"

\* FixResult(success=False, ...): rollback_info keeps its default, {}.
FailedFix == [success |-> FALSE, rollback_info |-> <<>>]

\* The directories of the model: a path f for the permission fixers, and
\* .env with its templates; .env may be a link to shared.env.
FixerInit ==
    /\ EngineIdle
    /\ ComponentsIdleBut("fixer")
    /\ \E f \in {Absent} \cup {Entry(k, p, "") : k \in {"file", "dir"},
                                                  p \in {"600", "755", "4711"}},
          env \in {Absent, Entry("file", "600", ""),
                   Entry("link", "777", "shared.env")},
          example \in {Absent, Entry("file", "644", ""),
                       Entry("dir", "755", "")},
          sample \in {Absent, Entry("file", "640", "")},
          shared \in {Absent, Entry("file", "600", "")} :
          fs = [name \in {"f", ".env", ".env.example", ".env.sample",
                          "shared.env"} |->
                  CASE name = "f" -> f
                    [] name = ".env" -> env
                    [] name = ".env.example" -> example
                    [] name = ".env.sample" -> sample
                    [] OTHER -> shared]
    /\ fs_before = fs
    /\ fix_pc = "idle"
    /\ fix_result = FailedFix

\* PermissionFixer.fix_file_permissions(path), mode = 0o644.
FixFilePermissions ==
    /\ fix_pc = "idle"
    /\ \E path \in {"f", ".env"} :
          IF Exists(fs, path)
          THEN LET at == Resolve(fs, path)
               IN  /\ fs' = [fs EXCEPT ![at].perms = "644"]
                   /\ fix_result' =
                        [success |-> TRUE,
                         rollback_info |->
                             [path |-> path,
                              old_mode |-> [type |-> fs[at].kind,
                                            perms |-> fs[at].perms]]]
          ELSE /\ fix_result' = FailedFix
               /\ UNCHANGED fs
    /\ fix_pc' = "fixed"
    /\ UNCHANGED <<fixer_frame, fs_before>>

\* PermissionFixer.fix_directory_permissions(path), mode = 0o755.
FixDirectoryPermissions ==
    /\ fix_pc = "idle"
    /\ \E path \in {"f"} :
          IF Exists(fs, path) /\ fs[Resolve(fs, path)].kind = "dir"
          THEN LET at == Resolve(fs, path)
               IN  /\ fs' = [fs EXCEPT ![at].perms = "755"]
                   /\ fix_result' =
                        [success |-> TRUE,
                         rollback_info |->
                             [path |-> path,
                              old_mode |-> [type |-> fs[at].kind,
                                            perms |-> fs[at].perms]]]
          ELSE /\ fix_result' = FailedFix
               /\ UNCHANGED fs
    /\ fix_pc' = "fixed"
    /\ UNCHANGED <<fixer_frame, fs_before>>

\* ConfigurationFixer.create_env_from_example.  shutil.copy raises for a
\* template that is a directory, and writes through a link at .env; of the
\* templates tried after .env.example the model has .env.sample.
CreateEnvFromExample ==
    /\ fix_pc = "idle"
    /\ LET template ==
               IF Exists(fs, ".env.example") THEN ".env.example"
               ELSE IF Exists(fs, ".env.sample") THEN ".env.sample"
               ELSE "none"
       IN  IF /\ ~Exists(fs, ".env")
              /\ template # "none"
              /\ fs[template].kind = "file"
           THEN /\ fs' = [fs EXCEPT ![Resolve(fs, ".env")] =
                                       Entry("file", fs[template].perms, "")]
                /\ fix_result' = [success |-> TRUE,
                                  rollback_info |-> [created_file |-> ".env"]]
           ELSE /\ fix_result' = FailedFix
                /\ UNCHANGED fs
    /\ fix_pc' = "fixed"
    /\ UNCHANGED <<fixer_frame, fs_before>>

\* The undo that the rollback metadata of a successful FixResult describes:
\* chmod(path, old_mode) for a recorded mode, and removal of created_file
\* (removing a path that is a link removes the link).
ApplyRollback ==
    /\ fix_pc = "fixed"
    /\ fix_result.success
    /\ LET info == fix_result.rollback_info
       IN  IF "old_mode" \in DOMAIN info
           THEN fs' = [fs EXCEPT ![Resolve(fs, info.path)].perms =
                                     info.old_mode.perms]
           ELSE fs' = [fs EXCEPT ![info.created_file] = Absent]
    /\ fix_pc' = "rolled_back"
    /\ UNCHANGED <<fixer_frame, fs_before, fix_result>>

FixerNext ==
    \/ FixFilePermissions
    \/ FixDirectoryPermissions
    \/ CreateEnvFromExample
    \/ ApplyRollback

FixerSpec == FixerInit /\ [][FixerNext]_vars

(***************************************************************************)
(* Properties of the fixers.                                               *)
(***************************************************************************)
\* C23: applying the rollback metadata of a successful FixResult to the
\* directory the fix produced gives back the directory the fix was
\* computed against: the same permission bits, and .env absent again.
C23_RollbackRestoresState ==
    fix_pc = "rolled_back" => fs = fs_before

(***************************************************************************)
(* Project type detection                                                  *)
(* (src/ai_orchestrator/execution/project_types.py).                       *)
(*                                                                         *)
(* A directory is what the detect methods look at: package.json (absent,   *)
(* a directory, bytes that are not UTF-8, text that is not JSON, a JSON    *)
(* array, or a JSON object with its two dependency tables, one of which    *)
(* may be null), an Xcode project, a Django manage.py, requirements.txt    *)
(* and main.py.  A detect call returns "true" or "false", or "raises".     *)
(***************************************************************************)
\* sorted(handlers, key=lambda x: x.priority, reverse=True): stable.
RECURSIVE SortedByPriority(_)
SortedByPriority(seq) ==
    IF seq = <<>> THEN <<>>
    ELSE LET best == CHOOSE i \in 1..Len(seq) :
                        /\ \A j \in 1..Len(seq) :
                              seq[j].priority <= seq[i].priority
                        /\ \A j \in 1..(i - 1) :
                              seq[j].priority < seq[i].priority
         IN  <<seq[best]>>
               \o SortedByPriority(SubSeq(seq, 1, best - 1)
                                     \o SubSeq(seq, best + 1, Len(seq)))

\* PROJECT_HANDLERS, lines 733-746: the handlers in the order of the source
\* list, sorted by priority.
PROJECT_HANDLERS ==
    SortedByPriority(<< [name |-> "nextjs", priority |-> 25],
                        [name |-> "react", priority |-> 20],
                        [name |-> "django", priority |-> 15],
                        [name |-> "flask", priority |-> 15],
                        [name |-> "ios", priority |-> 18],
                        [name |-> "nodejs", priority |-> 10],
                        [name |-> "python", priority |-> 5],
                        [name |-> "generic", priority |-> 0] >>)

\* BaseProjectHandler._read_json: None for a missing file or a
\* JSONDecodeError; any other exception of open or json.load goes on to
\* the caller.
read_json(manifest) ==
    CASE manifest.kind \in {"absent", "invalid"} -> "none"
      [] manifest.kind \in {"directory", "undecodable"} -> "raises"
      [] OTHER -> manifest.kind

\* The detect method of each handler.
Detect(name, dir) ==
    LET manifest == dir.package_json
        json == read_json(manifest)
        Bool(b) == IF b THEN "true" ELSE "false"
    IN  CASE name = "nextjs" ->
               IF manifest.kind = "absent" \/ json = "none" THEN "false"
               ELSE IF json # "object" \/ manifest.dependencies = {"null"}
                    THEN "raises"
                    ELSE Bool("next" \in manifest.dependencies)
          [] name = "react" ->
               IF manifest.kind = "absent" \/ json = "none" THEN "false"
               ELSE IF \/ json # "object"
                       \/ manifest.dependencies = {"null"}
                       \/ manifest.devDependencies = {"null"}
                    THEN "raises"
                    ELSE LET all_deps == manifest.dependencies
                                           \cup manifest.devDependencies
                         IN  Bool("react" \in all_deps /\ "next" \notin all_deps)
          [] name = "ios" -> Bool(dir.xcodeproj)
          [] name = "django" ->
               Bool(dir.manage_py \/ dir.requirements \in {"django", "both"})
          [] name = "flask" -> Bool(dir.requirements \in {"flask", "both"})
          [] name = "nodejs" -> Bool(manifest.kind # "absent")
          [] name = "python" -> Bool(dir.requirements # "absent" \/ dir.main_py)
          [] OTHER -> "true"

\* detect_project_type: the first handler whose detect is true; an
\* exception of a detect call ends the call.
detect_project_type(handlers, dir) ==
    LET stops == {i \in 1..Len(handlers) : Detect(handlers[i].name, dir) # "false"}
    IN  IF stops = {} THEN "generic"
        ELSE LET first == CHOOSE i \in stops : \A j \in stops : i <= j
             IN  IF Detect(handlers[first].name, dir) = "raises" THEN "raises"
                 ELSE handlers[first].name

DetectionInit ==
    /\ EngineIdle
    /\ ComponentsIdleBut("detection")
    /\ LET Tables(kind, deps, dev_deps) ==
               [kind |-> kind, dependencies |-> deps, devDependencies |-> dev_deps]
           manifests ==
               {Tables(k, {}, {}) :
                   k \in {"absent", "directory", "undecodable", "invalid", "array"}}
               \cup {Tables("object", d, v) :
                        d \in {{}, {"react"}, {"next"}, {"react", "next"}, {"null"}},
                        v \in {{}, {"react"}, {"next"}, {"null"}}}
       IN  project_path \in [package_json : manifests,
                             xcodeproj : BOOLEAN,
                             manage_py : BOOLEAN,
                             requirements : {"absent", "plain", "flask", "django",
                                             "both"},
                             main_py : BOOLEAN]
    /\ detected = "pending"

DetectProjectType ==
    /\ detected = "pending"
    /\ detected' = detect_project_type(PROJECT_HANDLERS, project_path)
    /\ UNCHANGED <<detection_frame, project_path>>

DetectionSpec == DetectionInit /\ [][DetectProjectType]_vars

(***************************************************************************)
(* Properties of project type detection.                                   *)
(***************************************************************************)
Priority(name) ==
    (CHOOSE h \in Range(PROJECT_HANDLERS) : h.name = name).priority

\* C24: detect_project_type returns a handler for every directory, and it
\* is a handler whose detect holds and of the highest priority among those.
C24_HighestPriorityMatchReturned ==
    detected # "pending" =>
        /\ detected \in {h.name : h \in Range(PROJECT_HANDLERS)}
        /\ Detect(detected, project_path) = "true"
        /\ \A h \in Range(PROJECT_HANDLERS) :
              Detect(h.name, project_path) = "true"
                  => h.priority <= Priority(detected)

\* The handlers that read package.json.
ManifestHandlers == {"nextjs", "react", "nodejs"}

\* C25: for a directory whose package.json is not valid JSON, detection
\* raises no exception and selects no handler that relies on package.json.
C25_BadManifestSelectsNoManifestHandler ==
    (detected # "pending"
        /\ project_path.package_json.kind \in {"invalid", "undecodable"})
    => /\ detected # "raises"
       /\ detected \notin ManifestHandlers

(***************************************************************************)
(* The loop on a detected Node.js project.                                 *)
(***************************************************************************)
\* The first cycle of the call: recorded, or the one an exception ended.
FirstCycle == IF cycles # <<>> THEN cycles[1] ELSE cycle

\* A call on a directory that holds only a package.json with a start script:
\* the first run is clean, the call is not cancelled, and the test run, when
\* there is one, fails (the directory has no test command) and nothing else
\* goes wrong.
NodeStartOnlyRun ==
    /\ Returned
    /\ cycle_num >= 1
    /\ ~cancelled
    /\ ~cancel_in_cycle
    /\ CleanExecution(FirstCycle)
    /\ raised_in \in {"none", "parse"}
    /\ FirstCycle.test_result.ran => ~FirstCycle.test_result.success

\* C26: on a directory that holds only a package.json with a start script,
\* with a clean run, the loop ends with status success after exactly one
\* cycle.
C26_NodeStartOnlySucceedsInOneCycle ==
    NodeStartOnlyRun => (status = "success" /\ Len(cycles) = 1)

(***************************************************************************)
(* Parsing of test output (src/ai_orchestrator/execution/test_executor.py) *)
(*                                                                         *)
(* A test output is the sequence of its tokens: the maximal runs of        *)
(* characters without white space, with "\n" for a line break.  The        *)
(* outputs of the model have no empty line, so the white space \s+ between *)
(* two tokens is blanks or one line break.                                 *)
(***************************************************************************)
\* int(...) of a token that matches \d+ in full.
Numerals ==
    [t \in {"0", "1", "2", "3", "12", "16"} |->
        CASE t = "0" -> 0 [] t = "1" -> 1 [] t = "2" -> 2 [] t = "3" -> 3
          [] t = "12" -> 12 [] OTHER -> 16]

\* The tokens that begin with the given word, with re.IGNORECASE or without:
\* a pattern that ends in a word matches every token the word begins.
Beginning(word, ignore_case) ==
    CASE word = "passed" -> {"passed", "passed,"}
                              \cup (IF ignore_case THEN {"PASSED"} ELSE {})
      [] word = "pass" -> {"passed", "passed,", "passing"}
                              \cup (IF ignore_case THEN {"PASSED"} ELSE {})
      [] word = "failed" -> {"failed", "failed,"}
                              \cup (IF ignore_case THEN {"FAILED"} ELSE {})
      [] word = "fail" -> {"failed", "failed,", "failing"}
                              \cup (IF ignore_case THEN {"FAILED"} ELSE {})
      [] word = "skipped" -> {"skipped", "skipped,"}
      [] word = "error" -> {"error", "errors", "error,", "errors,"}
      [] OTHER -> {word}

\* re.search for (\d+)\s+word: the place of the first match in the output, 0
\* when there is none.  The token at the place is a number and the next
\* token, after a line break or not, begins with the word.  .*? does not go
\* over a line break: a match for a group that follows one at place `after`
\* lies on the line of the token after that place (after = 0 for the first
\* group, which re.search may start anywhere).
FirstCounted(output, word, ignore_case, after) ==
    LET places ==
            {i \in (after + 1)..(Len(output) - 1) :
                /\ output[i] \in DOMAIN Numerals
                /\ \/ output[i + 1] \in Beginning(word, ignore_case)
                   \/ /\ i + 2 <= Len(output)
                      /\ output[i + 1] = "\n"
                      /\ output[i + 2] \in Beginning(word, ignore_case)
                /\ after > 0 => \A j \in (after + 2)..(i - 1) : output[j] # "\n"}
    IN  IF places = {} THEN 0 ELSE CHOOSE i \in places : \A j \in places : i <= j

\* int(match.group(n) or 0) for the group at the place.
GroupOrZero(output, place) ==
    IF place = 0 THEN 0 ELSE Numerals[output[place]]

\* TestResult(framework=..., success=False).
TestResult(framework) ==
    [framework |-> framework, success |-> FALSE, total_tests |-> 0,
     passed |-> 0, failed |-> 0, skipped |-> 0, errors |-> 0]

\* A pytest parser whose total leaves the skipped tests out.
parse_pytest_output_TotalOfTwo(output) ==
    LET p == FirstCounted(output, "passed", FALSE, 0)
        f == FirstCounted(output, "failed", FALSE, p)
    IN  IF p = 0 THEN TestResult("pytest")
        ELSE [TestResult("pytest") EXCEPT
                !.passed = GroupOrZero(output, p),
                !.failed = GroupOrZero(output, f),
                !.total_tests = GroupOrZero(output, p) + GroupOrZero(output, f),
                !.success = GroupOrZero(output, f) = 0]

\* TestExecutor._parse_pytest_output: the summary counts.  Each optional
\* group is looked for after the group matched before it.
parse_pytest_output(output) ==
    LET p == FirstCounted(output, "passed", FALSE, 0)
        f == FirstCounted(output, "failed", FALSE, p)
        after_f == IF f = 0 THEN p ELSE f
        s == FirstCounted(output, "skipped", FALSE, after_f)
        after_s == IF s = 0 THEN after_f ELSE s
        e == FirstCounted(output, "error", FALSE, after_s)
        passed == GroupOrZero(output, p)
        failed == GroupOrZero(output, f)
        skipped == GroupOrZero(output, s)
        errors == GroupOrZero(output, e)
    IN  IF p = 0 THEN TestResult("pytest")
        ELSE [TestResult("pytest") EXCEPT
                !.passed = passed,
                !.failed = failed,
                !.skipped = skipped,
                !.errors = errors,
                !.total_tests = passed + failed + skipped + errors,
                !.success = (failed = 0 /\ errors = 0)]

\* TestExecutor._parse_mocha_output
parse_mocha_output(output) ==
    LET passed == GroupOrZero(output, FirstCounted(output, "passing", FALSE, 0))
        failed == GroupOrZero(output, FirstCounted(output, "failing", FALSE, 0))
        skipped == GroupOrZero(output, FirstCounted(output, "pending", FALSE, 0))
    IN  [TestResult("mocha") EXCEPT
            !.passed = passed,
            !.failed = failed,
            !.skipped = skipped,
            !.total_tests = passed + failed + skipped,
            !.success = (failed = 0)]

\* TestExecutor._parse_generic_output.  The outputs of the model have no
\* "N tests passed", "passed: N" or "failed: N", the other forms the
\* patterns accept.
parse_generic_output(output) ==
    LET passed == GroupOrZero(output, FirstCounted(output, "pass", TRUE, 0))
        failed == GroupOrZero(output, FirstCounted(output, "fail", TRUE, 0))
    IN  [TestResult("unknown") EXCEPT
            !.passed = passed,
            !.failed = failed,
            !.total_tests = passed + failed,
            !.success = (failed = 0 /\ passed > 0)]

\* TestExecutor.parse_test_results: parsers.get(framework, generic).  Of the
\* six frameworks with a parser of their own the model has pytest and mocha.
parse_test_results(output, framework) ==
    CASE framework = "pytest" -> parse_pytest_output(output)
      [] framework = "mocha" -> parse_mocha_output(output)
      [] OTHER -> parse_generic_output(output)

\* The summary line "p passed, f failed, s skipped".
Summary(p, f, s) == <<p, "passed,", f, "failed,", s, "skipped">>

\* A test output: the summary line, after lines of a test run's report or
\* none, and before a closing line or none.
ParserInit ==
    /\ EngineIdle
    /\ ComponentsIdleBut("parser")
    /\ \E p \in {"12", "2"}, f \in {"3", "1"}, s \in {"1", "2"} :
         \E before \in {<<>>,
                        <<"collected", "16", "items", "\n">>,
                        <<"test_a.py::test_x", "PASSED", "\n",
                          "test_a.py::test_y", "FAILED", "\n">>,
                        <<"FAILED", "test_a.py::test_y", "\n">>},
            behind \in {<<>>, <<"\n", "2", "warnings">>, <<"\n", "1", "error">>} :
           tx_output = before \o Summary(p, f, s) \o behind
    /\ tx_framework \in {"pytest", "mocha", "unknown"}
    /\ tx_parsed = None

ParseTestResults ==
    /\ tx_parsed = None
    /\ tx_parsed' = Some(parse_test_results(tx_output, tx_framework))
    /\ UNCHANGED <<parser_frame, tx_output, tx_framework>>

ParserSpec == ParserInit /\ [][ParseTestResults]_vars

(***************************************************************************)
(* Properties of the test output parsers.                                  *)
(***************************************************************************)
\* The output holds the summary line "12 passed, 3 failed, 1 skipped".
HoldsScenarioSummary ==
    Occurrences(Summary("12", "3", "1"), tx_output) # {}

\* The TestResult of the scenario for the given framework.
ScenarioResult(framework) ==
    [framework |-> framework, success |-> FALSE, total_tests |-> 16,
     passed |-> 12, failed |-> 3, skipped |-> 1, errors |-> 0]

\* C28 as stated: parsing an output whose summary is "12 passed, 3 failed,
\* 1 skipped" yields passed=12, failed=3, skipped=1, total=16 and
\* success=false, whichever framework's parser is used.
C28_EveryParserReadsScenarioSummary ==
    (tx_parsed # None /\ HoldsScenarioSummary)
        => tx_parsed = Some(ScenarioResult(tx_framework))

\* C28, amended: the pytest parser yields passed=12, failed=3, skipped=1,
\* total=16 and success=false for an output whose summary is "12 passed,
\* 3 failed, 1 skipped".
C28_PytestParserReadsScenarioSummary ==
    (tx_parsed # None /\ HoldsScenarioSummary /\ tx_framework = "pytest")
        => tx_parsed = Some(ScenarioResult("pytest"))

C28_Witness ==
    /\ tx_framework = "pytest"
    /\ tx_output = <<"collected", "16", "items", "\n">>
                      \o Summary("12", "3", "1") \o <<"\n", "1", "error">>
    /\ tx_parsed = Some(ScenarioResult("pytest"))

(***************************************************************************)
(* Stuck and regressing loops.                                             *)
(***************************************************************************)
\* C29: the loop reports stuck_in_loop only if at least three cycles have
\* completed and the last three of them have the same non-empty set of
\* errors; equal error counts with different errors do not count.
C29_StuckOnlyOnThreeEqualErrorSets ==
    status = "stuck_in_loop" =>
        /\ Len(cycles) >= TrendWindow
        /\ HashSet(LastCycle) # {}
        /\ \A i \in (Len(cycles) - TrendWindow + 1)..Len(cycles) :
              HashSet(cycles[i]) = HashSet(LastCycle)

\* The trend that _update_progress computed after cycle k.
TrendAfter(k) == calculate_trend(SubSeq(progress.error_count_history, 1, k))

\* The trend was regressing after each of the three cycles that end with
\* cycle n.
RegressingForThree(n) ==
    /\ n >= TrendWindow
    /\ \A k \in (n - TrendWindow + 1)..n : TrendAfter(k) = "regressing"

\* C30: the loop stops for regression exactly when the trend has been
\* regressing for three consecutive cycles, and the call then returns the
\* status failed or needs_human_help.
C30_RegressionStopAfterThreeIsFailure ==
    (Returned /\ stop_reason = "regressing") =>
        /\ RegressingForThree(Len(cycles))
        /\ status \in {"failed", "needs_human_help"}

(***************************************************************************)
(* Progress tracking.                                                      *)
(***************************************************************************)
\* The trend as a table of the error counts: of one or no count, of two
\* counts, and of the last three counts a, b, c of a longer history.
TrendOfCounts(history) ==
    LET n == Len(history) IN
    IF n < 2 THEN "unknown"
    ELSE LET earliest == IF n = 2 THEN history[1] ELSE history[n - 2]
             middle == history[n - 1]
             latest == history[n]
         IN  IF earliest = middle /\ middle = latest THEN "stalled"
             ELSE IF latest < earliest THEN "improving"
             ELSE IF latest > earliest THEN "regressing"
             ELSE "stalled"

\* C31: after each cycle the history holds one error count per recorded
\* cycle and the trend is unknown for fewer than two counts, and otherwise,
\* over the last three counts (or the two there are), stalled if they are
\* all equal, improving if the latest is below the earliest, regressing if
\* it is above, and stalled in the remaining case.
C31_TrendIsFunctionOfHistory ==
    /\ Len(progress.error_count_history) = Len(cycles)
    /\ \A i \in 1..Len(cycles) :
          progress.error_count_history[i] = Len(cycles[i].errors_found)
    /\ progress.trend = TrendOfCounts(progress.error_count_history)

\* Three cycles with 1, 2 and 1 errors: the remaining case.
C31_Witness ==
    /\ Len(cycles) = 3
    /\ progress.error_count_history = <<1, 2, 1>>
    /\ progress.trend = "stalled"

(***************************************************************************)
(* The steps of a cycle.                                                   *)
(***************************************************************************)
\* The cycles recorded so far and the one in progress.
CyclesSoFar == Range(cycles) \cup (IF pc \in InCycle \cup {"cycle_done"} THEN {cycle} ELSE {})

\* C32: the test run of a cycle is started only if tests are enabled and the
\* execution of that cycle ended with status success; a cycle whose
\* execution did not succeed has no test outcome.
C32_TestsOnlyAfterSuccessfulExecution ==
    /\ pc = "test" => (run_tests /\ cycle.execution_result.status = "success")
    /\ \A c \in CyclesSoFar :
          c.test_result.ran => (run_tests /\ c.execution_result.status = "success")

\* A cycle whose run failed, without a test outcome, then one whose run
\* succeeded and whose tests ran.
C32_Witness ==
    /\ Len(cycles) = 2
    /\ cycles[1].execution_result.status = "failed"
    /\ ~cycles[1].test_result.ran
    /\ cycles[2].execution_result.status = "success"
    /\ cycles[2].test_result.ran

\* C34: every recorded cycle has one of the status tags errors_found,
\* tests_failed and success, whatever the status of its execution.
C34_RecordedCyclesHaveKnownTag ==
    \A i \in 1..Len(cycles) :
        cycles[i].status \in {"errors_found", "tests_failed", "success"}

\* C35: while cycles are left in the budget, the loop does not stop with
\* needs_human_help after a cycle in which a fix was applied successfully.
C35_NoHelpStopAfterAppliedFix ==
    (stop_reason = "needs_help" /\ Len(cycles) < max_cycles)
        => LastCycle.fixes_successful = 0

\* The sum of a sequence of numbers.
RECURSIVE SumOf(_)
SumOf(numbers) ==
    IF numbers = <<>> THEN 0 ELSE Head(numbers) + SumOf(Tail(numbers))

\* C37: after every completed cycle the progress agrees with the history:
\* total_cycles is the number of recorded cycles and the length of
\* error_count_history, total_errors_found the sum of error_count_history,
\* total_errors_fixed the sum of the cycles' fixes_successful, and in each
\* cycle fixes_successful + fixes_failed is the number of recorded attempts.
C37_ProgressAgreesWithHistory ==
    /\ progress.total_cycles = Len(cycles)
    /\ progress.total_cycles = Len(progress.error_count_history)
    /\ progress.total_errors_found = SumOf(progress.error_count_history)
    /\ progress.total_errors_fixed =
           SumOf([i \in 1..Len(cycles) |-> cycles[i].fixes_successful])
    /\ \A i \in 1..Len(cycles) :
          cycles[i].fixes_successful + cycles[i].fixes_failed
              = Len(cycles[i].fixes_attempted)

\* Two cycles with three errors between them, one fix applied with success
\* and one attempt that failed.
C37_Witness ==
    /\ Len(cycles) = 2
    /\ progress.total_errors_found = 3
    /\ progress.total_errors_fixed = 1
    /\ \E i \in 1..2 : cycles[i].fixes_failed = 1

\* The error hashes that have appeared in the recorded cycles.
HashesSeen == UNION {HashSet(cycles[i]) : i \in 1..Len(cycles)}

\* C38: after any sequence of cycles unique_errors_seen is the number of
\* distinct error hashes that have appeared, and unique_errors_seen +
\* repeated_errors is total_errors_found.
C38_UniqueErrorsAreDistinctHashes ==
    /\ progress.unique_errors_seen = Cardinality(HashesSeen)
    /\ progress.unique_errors_seen + progress.repeated_errors
           = progress.total_errors_found

\* C39: with auto_fix disabled no fix is analysed, generated or applied and
\* no attempt counter changes: no cycle has a fix attempt, and the loop
\* applies nothing to the project.
C39_NoFixWorkWithoutAutoFix ==
    ~auto_fix =>
        /\ pc \notin {"fix_exec", "fix_test"}
        /\ \A c \in CyclesSoFar :
              /\ c.fixes_attempted = <<>>
              /\ c.fixes_successful = 0
              /\ c.fixes_failed = 0
        /\ last_attempt = NoAttempt
        /\ fixes_generated = 0
        /\ applied_confidences = {}
        /\ \A h \in Hashes : error_hash_counts[h] = 0

\* A run without auto_fix that has recorded two cycles with errors.
C39_Witness ==
    /\ ~auto_fix
    /\ Returned
    /\ Len(cycles) = 2
    /\ \A i \in 1..2 : cycles[i].errors_found # <<>>

(***************************************************************************)
(* The setup of the project (SetupSpec).                                   *)
(***************************************************************************)
\* The install command was run in the run_project call of cycle c.
SetupRan(c) == c.execution_result.setup # "not_run"

\* C33: the install command is run only in cycle 1, and at most once in a
\* run of the loop; no later cycle runs it, whatever happened in cycle 1.
C33_SetupOnlyInCycleOne ==
    /\ \A c \in CyclesSoFar :
          SetupRan(c) => (c.cycle_number = 1 /\ setup /\ install_command)
    /\ Cardinality({i \in 1..Len(cycles) : SetupRan(cycles[i])}) <= 1

\* The setup failed in cycle 1, and cycles 2 and 3 ran without one.
C33_Witness ==
    /\ Len(cycles) = 3
    /\ cycles[1].execution_result.setup = "failed"
    /\ ~SetupRan(cycles[2])
    /\ ~SetupRan(cycles[3])

\* The run command was executed in the run_project call of cycle c: the
\* call returned what an execution returns.
CommandRan(c) == c.execution_result.status \in {"success", "timeout"}

\* C36: when the setup is asked for and the project has an install command,
\* the run command is executed in a cycle only if the install command has
\* succeeded in that cycle or an earlier one.
C36_NoRunWithoutSuccessfulSetup ==
    (setup /\ install_command) =>
        \A i \in 1..Len(cycles) :
            CommandRan(cycles[i]) =>
                \E j \in 1..i : cycles[j].execution_result.setup = "succeeded"

(***************************************************************************)
(* TestExecutor.run_tests: the test command is run, its output parsed and  *)
(* the exit code recorded.  The outputs of the model are shorter than      *)
(* max_output_size, so that none is truncated.                             *)
(***************************************************************************)
\* The largest exit code of a test command.
MaxExitCode == 2

\* TestExecutor.DEFAULT_COMMANDS: the frameworks with a command of their own.
DEFAULT_COMMANDS == {"pytest", "mocha"}

\* TestExecutor.run_tests.  command: a custom command is given; returncode:
\* the exit code of the command, None when subprocess.run raised
\* (TimeoutExpired or another exception).
TestExecutor_run_tests(output, framework, command, returncode) ==
    IF ~command /\ framework \notin DEFAULT_COMMANDS
      THEN [exit_code |-> -1] @@ TestResult(framework)
    ELSE IF returncode = None
      THEN [exit_code |-> -1] @@ TestResult(framework)
    ELSE LET parsed == parse_test_results(output, framework)
         IN  [exit_code |-> returncode[1]]
                 @@ [parsed EXCEPT !.success = (returncode[1] = 0)]

\* A test output: a summary line of a passing or a failing test run, in the
\* scenario's order or in pytest's, or no summary, after a report line or
\* none.
ExecutorInit ==
    /\ EngineIdle
    /\ ComponentsIdleBut("parser")
    /\ \E before \in {<<>>,
                      <<"collected", "16", "items", "\n">>,
                      <<"FAILED", "test_a.py::test_y", "\n">>},
          summary \in {<<>>,
                       <<"12", "passed">>,
                       <<"12", "passing">>,
                       Summary("12", "3", "1"),
                       Summary("12", "0", "1"),
                       <<"3", "failed,", "12", "passed">>,
                       <<"12", "passed,", "1", "error">>,
                       <<"12", "passing", "\n", "3", "failing">>} :
         tx_output = before \o summary
    /\ tx_framework \in {"pytest", "mocha", "unknown"}
    /\ tx_parsed = None

TestExecutorRunTests ==
    /\ tx_parsed = None
    /\ \E command \in BOOLEAN,
          returncode \in {None} \cup {Some(code) : code \in 0..MaxExitCode} :
         tx_parsed' = Some(TestExecutor_run_tests(tx_output, tx_framework,
                                                  command, returncode))
    /\ UNCHANGED <<parser_frame, tx_output, tx_framework>>

ExecutorSpec == ExecutorInit /\ [][TestExecutorRunTests]_vars

\* C40: a TestResult returned by run_tests with success = true has failed = 0
\* and errors = 0, whatever the exit code and the test output.
C40_SuccessMeansNoFailures ==
    (tx_parsed # None /\ tx_parsed[1].success)
        => (tx_parsed[1].failed = 0 /\ tx_parsed[1].errors = 0)

=============================================================================
